---- MODULE Spec2Model ----
(***************************************************************************)
(* State-machine model of the TON provider system: the provider manager,   *)
(* the provider selector, the health checker and the token-bucket rate     *)
(* limiter.  Time is the value of Date.now() in milliseconds.  Scores are  *)
(* the selector's floating-point scores multiplied by 10^6.               *)
(***************************************************************************)
EXTENDS Integers, Sequences, FiniteSets, TLC

VARIABLES
    now,                    \* Date.now()
    ticks,                  \* number of clock advances taken so far
    tests,                  \* number of sweeps and single tests started so far
    reports,                \* number of reportError / mark calls made so far
    optAdapter,             \* ProviderManager.options.adapter
    initialized,            \* ProviderManager.initialized
    network,                \* ProviderManager.network
    isTesting,              \* ProviderManager.isTesting
    initPending,            \* init() calls suspended in `await loadConfig()`
    epoch,                  \* identity of the component set created by init()
    results,                \* HealthChecker.results (keyed by provider id)
    highestSeqno,           \* HealthChecker.highestSeqno (per network)
    adapter,                \* ProviderSelector.adapter
    selectedProviderId,     \* ProviderSelector.selectedProviderId
    autoSelect,             \* ProviderSelector.autoSelect
    customEndpoint,         \* ProviderSelector.customEndpoint
    bestProviderByNetwork,  \* ProviderSelector.bestProviderByNetwork
    healthCheckInterval,    \* ProviderManager.healthCheckInterval: next firing time, or Null
    probes,                 \* HealthChecker.testProvider() calls in flight
    configs,                \* RateLimiterManager.configs
    limiters,               \* RateLimiterManager.limiters
    calls,                  \* TokenBucketRateLimiter.acquire() invocations
    microtasks,             \* the JavaScript microtask (promise job) queue
    timers,                 \* pending setTimeout / setInterval timers, in creation order
    pending429,             \* 429 reports since the last acquire() was invoked: how many, the last one's time
    ret                     \* outcome of the operation performed by the last step

vars == << now, ticks, tests, reports, optAdapter, adapter, initialized, network, isTesting, initPending, epoch,
           results, highestSeqno, selectedProviderId, autoSelect,
           customEndpoint, bestProviderByNetwork, healthCheckInterval,
           probes, configs, limiters, calls, microtasks, timers, pending429, ret >>

adapterVars == << optAdapter, adapter >>
mgrVars == << adapterVars, initialized, network, isTesting, initPending, epoch, healthCheckInterval >>
healthVars == << results, highestSeqno >>
selVars == << selectedProviderId, autoSelect, customEndpoint, bestProviderByNetwork >>
limVars == << configs, limiters >>
acqVars == << calls, microtasks, timers, pending429 >>

Null == 0 - 1          \* null / undefined for numeric fields
None == "none"      \* null / undefined for identifiers
NoEndpoint == << >>  \* a null endpoint: `endpoint?.trim() || null` is null for the empty string

(***************************************************************************)
(* Bounds of the model.                                                    *)
(***************************************************************************)
MaxTicks == 2       \* clock advances per behaviour
MaxTests == 2       \* sweeps and single tests started per behaviour
MaxInits == 1       \* init() calls per behaviour
MaxReports == 1     \* reportError / markOffline / markDegraded calls per behaviour
TickSteps == {30000}  \* clock advances: the cooldown window, the ticker period, past the probe timeout

(***************************************************************************)
(* Registry: the resolved providers of rpc.json, in insertion order.       *)
(***************************************************************************)
Networks == {"testnet", "mainnet"}
ProviderIds == << "P1", "P2", "M1" >>
Providers == {ProviderIds[i] : i \in 1..Len(ProviderIds)}

ProviderNetwork(p) == IF p = "M1" THEN "mainnet" ELSE "testnet"
ProviderPriority(p) == CASE p = "P1" -> 10 [] p = "P2" -> 20 [] OTHER -> 10
ProviderRps(p) == CASE p = "P1" -> 10 [] p = "P2" -> 10 [] OTHER -> 1
ConfigDefaults(n) == IF n = "testnet" THEN << "P2" >> ELSE << "M1" >>
\* resolveProvider: config.browserCompatible, true when the config omits it
ProviderBrowserCompatible(p) == p # "P2"

SeqToSet(s) == {s[i] : i \in 1..Len(s)}
IndexOf(s, x) == IF x \in SeqToSet(s) THEN CHOOSE i \in 1..Len(s) : s[i] = x /\ \A j \in 1..(i-1) : s[j] # x ELSE 0

\* ProviderRegistry.getProvidersForNetwork
GetProvidersForNetwork(n) == SelectSeq(ProviderIds, LAMBDA p : ProviderNetwork(p) = n)

\* Array.prototype.sort by ascending priority (stable)
RECURSIVE SortByPriority(_)
SortByPriority(s) ==
    IF Len(s) = 0 THEN << >>
    ELSE LET i == CHOOSE k \in 1..Len(s) :
                    /\ \A j \in 1..Len(s) : ProviderPriority(s[k]) <= ProviderPriority(s[j])
                    /\ \A j \in 1..(k-1) : ProviderPriority(s[j]) > ProviderPriority(s[k])
         IN << s[i] >> \o SortByPriority(SubSeq(s, 1, i-1) \o SubSeq(s, i+1, Len(s)))

\* getDefaultProvidersForNetwork / ProviderRegistry.getDefaultOrderForNetwork
GetDefaultOrderForNetwork(n) ==
    LET np == GetProvidersForNetwork(n)
        inOrder == SelectSeq(ConfigDefaults(n), LAMBDA p : p \in SeqToSet(np))
        remaining == SelectSeq(np, LAMBDA p : IndexOf(ConfigDefaults(n), p) = 0)
    IN inOrder \o SortByPriority(remaining)

(***************************************************************************)
(* Health checker.                                                         *)
(***************************************************************************)
timeoutMs == 10000
maxBlocksBehind == 10
degradedLatencyMs == 3000
SeqnoValues == {980, 1000}

NoResult == [success |-> FALSE, status |-> "none", latencyMs |-> Null,
             seqno |-> Null, blocksBehind |-> 0, lastTested |-> Null]

\* HealthChecker.getResult: `undefined` is NoResult
HasResult(p) == results[p].status # "none"

Max(a, b) == IF a >= b THEN a ELSE b
Min(a, b) == IF a <= b THEN a ELSE b

\* testProvider, first synchronous part: the `testing` placeholder
TestingResult == [success |-> FALSE, status |-> "testing", latencyMs |-> Null,
                  seqno |-> Null, blocksBehind |-> 0, lastTested |-> Null]

\* the highest seqno overwritten by every successful probe
NewHighestLastWins(n, seqno) == seqno

\* testProvider, success branch: the network's highest seqno after the probe
NewHighest(n, seqno) == IF seqno > highestSeqno[n] THEN seqno ELSE highestSeqno[n]

\* a success branch that never looks at blocksBehind
SuccessResultNoStale(n, seqno, latencyMs) ==
    LET highest == NewHighest(n, seqno)
    IN [success |-> TRUE,
        status |-> IF latencyMs > degradedLatencyMs THEN "degraded" ELSE "available",
        latencyMs |-> latencyMs, seqno |-> seqno,
        blocksBehind |-> Max(0, (IF highest # 0 THEN highest ELSE seqno) - seqno),
        lastTested |-> now]

\* testProvider, success branch: the recorded result
SuccessResult(n, seqno, latencyMs) ==
    LET highest == NewHighest(n, seqno)
        blocksBehind == Max(0, (IF highest # 0 THEN highest ELSE seqno) - seqno)
        status == IF blocksBehind > maxBlocksBehind THEN "stale"
                  ELSE IF latencyMs > degradedLatencyMs THEN "degraded"
                  ELSE "available"
    IN [success |-> TRUE, status |-> status, latencyMs |-> latencyMs,
        seqno |-> seqno, blocksBehind |-> blocksBehind, lastTested |-> now]

\* testProvider, catch branch.  An error is the set of substrings its
\* message contains; "AbortError" stands for error.name = 'AbortError'.
ProbeErrors == { {"429"}, {"AbortError"}, {"503"} }
FailureResult(err, latencyMs) ==
    LET is429 == "429" \in err \/ "rate limit" \in err
        isTimeout == "AbortError" \in err \/ "timeout" \in err
    IN [success |-> FALSE,
        status |-> IF is429 THEN "degraded" ELSE "offline",
        latencyMs |-> IF isTimeout THEN Null ELSE latencyMs,
        seqno |-> Null, blocksBehind |-> 0, lastTested |-> now]

\* HealthChecker.markDegraded
MarkDegraded(res, p) ==
    IF res[p].status # "none"
    THEN [res EXCEPT ![p].status = "degraded", ![p].lastTested = now]
    ELSE res

\* HealthChecker.markOffline
MarkOffline(res, p) ==
    IF res[p].status # "none"
    THEN [res EXCEPT ![p].status = "offline", ![p].lastTested = now]
    ELSE res

(***************************************************************************)
(* Selector.                                                               *)
(***************************************************************************)
cooldownMs == 30000
preferredLatencyMs == 1000
minStatus == {"available", "degraded"}
Adapters == {"node", "browser"}

\* round(1000000 * ln(k + 1) / ln(11)) for k = 0..10
LogTable == << 0, 289065, 458157, 578130, 671188, 747222, 811508, 867194,
               916314, 960253, 1000000 >>

GetStatusScore(status) ==
    CASE status = "available" -> 1000000
      [] status = "degraded" -> 1000000 \div 2
      [] status = "stale" -> (3 * 1000000) \div 10
      [] OTHER -> 0

\* max(0, 1 - log(latency/preferred + 1) / log(11)); the clock moves in
\* multiples of preferredLatencyMs, so the table is exact on every latency
\* the model produces
GetLatencyScore(latencyMs) ==
    IF latencyMs = Null THEN 1000000 \div 2
    ELSE IF latencyMs >= 10 * preferredLatencyMs THEN 0
    ELSE 1000000 - LogTable[(latencyMs \div preferredLatencyMs) + 1]

GetPriorityScore(priority) == Max(0, 1000000 - (priority * 1000000) \div 100)

GetFreshnessScore(blocksBehind) == Max(0, 1000000 - (blocksBehind * 1000000) \div 10)

\* scoreProvider without the cooldown test: a failed provider always gets the
\* retry score
ScoreProviderNoCooldown(res, p) ==
    LET health == res[p] IN
    IF health.status = "none" \/ health.status = "untested"
    THEN (1000000 \div 100) \div (ProviderPriority(p) + 1)
    ELSE IF health.success = FALSE
    THEN (1000000 \div 1000) \div (ProviderPriority(p) + 1)
    ELSE IF health.status = "offline" THEN 0
    ELSE IF health.status \notin minStatus THEN 0
    ELSE ( 2 * GetStatusScore(health.status)
         + 4 * GetLatencyScore(health.latencyMs)
         + 3 * GetPriorityScore(ProviderPriority(p))
         + 3 * GetFreshnessScore(health.blocksBehind) ) \div 10

\* ProviderSelector.scoreProvider, reading the health results `res`
ScoreProvider(res, p) ==
    LET health == res[p] IN
    IF health.status = "none" \/ health.status = "untested"
    THEN (1000000 \div 100) \div (ProviderPriority(p) + 1)
    ELSE IF health.success = FALSE
    THEN IF health.lastTested # Null /\ now - health.lastTested > cooldownMs
         THEN (1000000 \div 1000) \div (ProviderPriority(p) + 1)
         ELSE 0
    ELSE IF health.status = "offline" THEN 0
    ELSE IF health.status \notin minStatus THEN 0
    ELSE ( 2 * GetStatusScore(health.status)
         + 4 * GetLatencyScore(health.latencyMs)
         + 3 * GetPriorityScore(ProviderPriority(p))
         + 3 * GetFreshnessScore(health.blocksBehind) ) \div 10

\* ProviderSelector.filterBrowserCompatible.  The test of the health result's
\* browserCompatible flag passes always: HealthChecker.testProvider,
\* markDegraded and markOffline never put that flag on a result.
FilterBrowserCompatible(ps) == SelectSeq(ps, LAMBDA p : ProviderBrowserCompatible(p))

\* providers.map(score).filter(score > 0).sort(desc)[0]: the first provider,
\* in list order, of maximal positive score (Array.prototype.sort is stable)
TopScored(res, ps) ==
    LET scored == SelectSeq(ps, LAMBDA p : ScoreProvider(res, p) > 0)
    IN IF Len(scored) = 0 THEN None
       ELSE scored[CHOOSE i \in 1..Len(scored) :
                /\ \A j \in 1..Len(scored) :
                      ScoreProvider(res, scored[i]) >= ScoreProvider(res, scored[j])
                /\ \A j \in 1..(i-1) :
                      ScoreProvider(res, scored[j]) < ScoreProvider(res, scored[i])]

CooldownExpired(res, p) ==
    /\ res[p].success = FALSE
    /\ res[p].lastTested # Null
    /\ now - res[p].lastTested > cooldownMs

Untested(res, p) == res[p].status = "none" \/ res[p].status = "untested"

\* the first fallback loop taking any provider of the default order, failed
\* and cooling down or not
DefaultUsablePermissive(res, p) ==
    Untested(res, p) \/ res[p].success = TRUE \/ res[p].success = FALSE

\* findBestProvider, first fallback loop (default order)
DefaultUsable(res, p) == Untested(res, p) \/ res[p].success = TRUE \/ CooldownExpired(res, p)

\* findBestProvider, second fallback loop (any provider)
AnyUsable(res, p) == Untested(res, p) \/ CooldownExpired(res, p)

\* the provider a fallback loop returns: the first that qualifies, if any
First(hits) == IF Len(hits) = 0 THEN None ELSE hits[1]

\* ProviderSelector.findBestProvider: the provider returned and the cache
\* entry of the network afterwards
FindBestProvider(res, n, cache) ==
    LET all == GetProvidersForNetwork(n)
        providers == IF adapter = "browser" THEN FilterBrowserCompatible(all) ELSE all
        best == TopScored(res, providers)
        byDefault == First(SelectSeq(GetDefaultOrderForNetwork(n), LAMBDA p : DefaultUsable(res, p)))
        byAny == First(SelectSeq(providers, LAMBDA p : AnyUsable(res, p)))
    IN IF Len(providers) = 0 THEN [ret |-> None, cache |-> cache]
       ELSE IF best = None
       THEN [ret |-> IF byDefault # None THEN byDefault ELSE byAny, cache |-> cache]
       ELSE [ret |-> best,
             cache |-> IF res[best].status # "none" /\ res[best].success = TRUE
                       THEN best ELSE cache]

\* the cached-best check of getBestProvider, on the cache entry c
CachedUsableIn(res, c) ==
    /\ c # None
    /\ c \in Providers
    /\ res[c].status # "none"
    /\ res[c].success = TRUE
    /\ res[c].status \in minStatus

CachedUsable(n) == CachedUsableIn(results, bestProviderByNetwork[n])

\* a selector that prefers its cached best provider to the manual selection
GetBestProviderCacheFirst(res, n, cache, custom, auto, selected) ==
    IF custom # NoEndpoint THEN [ret |-> "custom", cache |-> cache]
    ELSE IF CachedUsableIn(res, cache) THEN [ret |-> cache, cache |-> cache]
    ELSE IF ~auto /\ selected # None THEN [ret |-> selected, cache |-> cache]
    ELSE FindBestProvider(res, n, None)

\* ProviderSelector.getBestProvider on the health results res, the cache
\* entry of the network and the overrides given: the provider returned
\* ("custom" for the pseudo-provider of a custom endpoint) and the cache
\* entry afterwards
GetBestProviderIn(res, n, cache, custom, auto, selected) ==
    IF custom # NoEndpoint THEN [ret |-> "custom", cache |-> cache]
    ELSE IF ~auto /\ selected # None
            /\ selected \in Providers
            /\ ProviderNetwork(selected) = n
    THEN [ret |-> selected, cache |-> cache]
    ELSE IF CachedUsableIn(res, cache)
    THEN [ret |-> cache, cache |-> cache]
    ELSE FindBestProvider(res, n, None)

GetBestProvider(n) ==
    GetBestProviderIn(results, n, bestProviderByNetwork[n], customEndpoint, autoSelect,
                      selectedProviderId)

\* ProviderSelector.getNextProvider
GetNextProvider(res, n, excludeIds) ==
    LET all == GetProvidersForNetwork(n)
        providers == IF adapter = "browser" THEN FilterBrowserCompatible(all) ELSE all
    IN TopScored(res, SelectSeq(providers, LAMBDA p : p \notin excludeIds))

\* ProviderSelector.handleProviderFailure: the cache entry afterwards
HandleProviderFailure(cache, p) == IF cache = p THEN None ELSE cache

(***************************************************************************)
(* Endpoints.  A URL is the sequence of its '/'-separated parts after the  *)
(* origin: << origin, segment, ..., segment >>.                            *)
(***************************************************************************)
EndpointV2(p) ==
    CASE p = "P1" -> << "https://testnet.toncenter.com", "api", "v2" >>
      [] p = "P2" -> << "https://ton-testnet.core.chainstack.com", "KEY", "api", "v2" >>
      [] OTHER -> << "https://toncenter.com", "api", "v2" >>

\* String.prototype.trim: a string is the sequence of its '/'-separated
\* parts, " " being a run of white space at either end
RECURSIVE Trim(_)
Trim(x) ==
    IF x = << >> THEN x
    ELSE IF Head(x) = " " THEN Trim(Tail(x))
    ELSE IF x[Len(x)] = " " THEN Trim(SubSeq(x, 1, Len(x) - 1))
    ELSE x

EndsWith(u, tail) ==
    Len(u) >= Len(tail) + 1 /\ SubSeq(u, Len(u) - Len(tail) + 1, Len(u)) = tail

IsJsonRpc(seg) == seg \in {"jsonRPC", "jsonrpc", "JSONRPC"}

\* the first parts that new URL() accepts as scheme and host
Origins ==
    { "https://testnet.toncenter.com", "https://ton-testnet.core.chainstack.com",
      "https://toncenter.com", "https://my.proxy" }

\* `new URL(normalized)` does not throw and its pathname is empty or '/'
IsBaseUrl(u) ==
    /\ Len(u) >= 1
    /\ u[1] \in Origins
    /\ Len(u) = 1 \/ (Len(u) = 2 /\ u[2] = "")

\* normalizeV2Endpoint (src/utils/endpoint.ts): trim, drop one trailing
\* slash, then the suffix rules; String.replace rewrites the first /api/v3
NormalizeV2Endpoint(endpoint) ==
    LET trimmed == Trim(endpoint)
        normalized == IF Len(trimmed) > 1 /\ trimmed[Len(trimmed)] = ""
                      THEN SubSeq(trimmed, 1, Len(trimmed) - 1)
                      ELSE trimmed
    IN IF Len(normalized) > 1 /\ IsJsonRpc(normalized[Len(normalized)]) THEN normalized
       ELSE IF EndsWith(normalized, << "api", "v2" >>) THEN Append(normalized, "jsonRPC")
       ELSE IF EndsWith(normalized, << "api", "v3" >>)
       THEN LET i == CHOOSE k \in 2..(Len(normalized) - 1) :
                        /\ normalized[k] = "api" /\ normalized[k+1] = "v3"
                        /\ \A j \in 2..(k-1) : ~(normalized[j] = "api" /\ normalized[j+1] = "v3")
            IN SubSeq(normalized, 1, i - 1) \o << "api", "v2", "jsonRPC" >>
                 \o SubSeq(normalized, i + 2, Len(normalized))
       ELSE IF IsBaseUrl(normalized) THEN Append(normalized, "jsonRPC")
       ELSE normalized

\* ProviderManager.getFallbackEndpoint
GetFallbackEndpoint(n) ==
    IF n = "mainnet" THEN << "https://toncenter.com", "api", "v2", "jsonRPC" >>
    ELSE << "https://testnet.toncenter.com", "api", "v2", "jsonRPC" >>

\* arguments of setCustomEndpoint: without the /jsonRPC suffix, with it and
\* padded with white space, blank
CustomEndpoints ==
    { << "https://my.proxy", "api", "v2" >>,
      << " ", "https://my.proxy", "api", "v2", "jsonRPC", " " >>,
      << " " >> }

(***************************************************************************)
(* Rate limiter: configuration and the synchronous operations.             *)
(***************************************************************************)
LimiterIds == Providers \cup {"custom"}

\* DEFAULT_RATE_LIMIT, the result of getRateLimitForType for the provider
\* types of this registry
DEFAULT_RATE_LIMIT == [rps |-> 1, burstSize |-> 3, minDelayMs |-> 1000,
                       backoffMultiplier |-> 2, maxBackoffMs |-> 30000]

NoConfig == [rps |-> 0, burstSize |-> 0, minDelayMs |-> 0,
             backoffMultiplier |-> 0, maxBackoffMs |-> 0]

\* Math.ceil((1000 / rps) * 1.2) and Math.ceil((1000 / rps) * 1.1) in IEEE-754
\* double arithmetic, for rps = 1..30 (100 * 1.1 is 110.00000000000001, whose
\* ceiling is 111)
CeilBuffered(rps, tenths) ==
    IF tenths = 12
    THEN << 1200, 600, 400, 300, 240, 200, 172, 150, 134, 120, 110, 100, 93, 86, 80,
            75, 71, 67, 64, 60, 58, 55, 53, 50, 48, 47, 45, 43, 42, 40 >>[rps]
    ELSE << 1100, 550, 367, 275, 221, 184, 158, 138, 123, 111, 100, 92, 85, 79, 74,
            69, 65, 62, 58, 56, 53, 50, 48, 46, 44, 43, 41, 40, 38, 37 >>[rps]

\* a 20% buffer up to rps = 5
InitMinDelayMsWide(rps) == CeilBuffered(rps, IF rps <= 5 THEN 12 ELSE 11)

\* init: bufferMultiplier = provider.rps <= 3 ? 1.2 : 1.1;
\* minDelayMs = Math.ceil((1000 / provider.rps) * bufferMultiplier)
InitMinDelayMs(rps) == CeilBuffered(rps, IF rps <= 3 THEN 12 ELSE 11)

\* init: the configuration given to rateLimiter.setConfig for a provider of
\* the given rps whose type has the configuration base
InitRateConfigFor(base, rps) ==
    LET burstSize == IF rps <= 3 THEN 1
                     ELSE IF rps <= 5 THEN 2
                     ELSE Max(3, (3 * rps + 1) \div 2)
    IN [base EXCEPT !.rps = rps, !.minDelayMs = InitMinDelayMs(rps), !.burstSize = burstSize]

\* the providers of this registry have types without a configuration of
\* their own (getRateLimitForType: default)
InitRateConfig(p) == InitRateConfigFor(DEFAULT_RATE_LIMIT, ProviderRps(p))

NoLimiter == [created |-> FALSE, tokens |-> 0, lastRefill |-> 0, currentBackoff |-> 0,
              consecutiveErrors |-> 0, processing |-> FALSE, requestQueue |-> << >>]

\* RateLimiterManager.getLimiter -> new TokenBucketRateLimiter({...savedConfig})
EffectiveConfig(id) == IF configs[id] = NoConfig THEN DEFAULT_RATE_LIMIT ELSE configs[id]

NewLimiter(id) ==
    [created |-> TRUE, tokens |-> EffectiveConfig(id).burstSize, lastRefill |-> now,
     currentBackoff |-> 0, consecutiveErrors |-> 0, processing |-> FALSE,
     requestQueue |-> << >>]

GetLimiter(lims, id) == IF lims[id].created THEN lims[id] ELSE NewLimiter(id)

\* TokenBucketRateLimiter.reportSuccess
LimReportSuccess(l) == [l EXCEPT !.currentBackoff = 0, !.consecutiveErrors = 0]

\* TokenBucketRateLimiter.reportRateLimitError
LimReportRateLimitError(l, cfg) ==
    [l EXCEPT !.consecutiveErrors = @ + 1,
              !.currentBackoff = IF @ = 0 THEN cfg.minDelayMs * cfg.backoffMultiplier
                                 ELSE Min(@ * cfg.backoffMultiplier, cfg.maxBackoffMs),
              !.tokens = 0,
              !.lastRefill = now]

\* TokenBucketRateLimiter.reportError
LimReportError(l, cfg) ==
    [l EXCEPT !.consecutiveErrors = @ + 1,
              !.currentBackoff = IF l.consecutiveErrors + 1 >= 3
                                 THEN Min(cfg.minDelayMs * (l.consecutiveErrors + 1),
                                          cfg.maxBackoffMs \div 2)
                                 ELSE @]

\* a refill that adds the tokens of the elapsed time without the cap
RefillAtUncapped(l, cfg, t) ==
    LET tokensToAdd == ((t - l.lastRefill) * cfg.rps) \div 1000
    IN IF tokensToAdd > 0
       THEN [l EXCEPT !.tokens = @ + tokensToAdd, !.lastRefill = t]
       ELSE l

\* TokenBucketRateLimiter.refill at time t.  Math.floor((elapsed / 1000) * rps)
\* is exact for the configurations and instants of this model.
RefillAt(l, cfg, t) ==
    LET tokensToAdd == ((t - l.lastRefill) * cfg.rps) \div 1000
    IN IF tokensToAdd > 0
       THEN [l EXCEPT !.tokens = Min(cfg.burstSize, @ + tokensToAdd), !.lastRefill = t]
       ELSE l

\* acquire, the wait-for-token loop of a call that started at t0, at time t
RECURSIVE WaitForToken(_, _, _, _, _)
WaitForToken(l, cfg, t, t0, acquireTimeoutMs) ==
    IF l.tokens > 0 THEN [acquired |-> TRUE, lim |-> l, at |-> t]
    ELSE IF t - t0 > acquireTimeoutMs THEN [acquired |-> FALSE, lim |-> l, at |-> t]
    ELSE LET poll == Min(100, cfg.minDelayMs)
         IN WaitForToken(RefillAt(l, cfg, t + poll), cfg, t + poll, t0, acquireTimeoutMs)

\* TokenBucketRateLimiter.acquire(acquireTimeoutMs) called at t0 on an idle
\* limiter, with nothing else happening until it returns: the result, the
\* limiter afterwards, the time the token was consumed and the time of the
\* return
AcquireAlone(l, cfg, t0, acquireTimeoutMs) ==
    LET l1 == RefillAt(l, cfg, t0)
        t1 == t0 + l1.currentBackoff
        l2 == IF l1.currentBackoff > 0
              THEN [l1 EXCEPT !.lastRefill = t1, !.currentBackoff = 0]
              ELSE l1
        w == WaitForToken(l2, cfg, t1, t0, acquireTimeoutMs)
        timeSinceLastRefill == w.at - w.lim.lastRefill
        done == w.at + Max(0, cfg.minDelayMs - timeSinceLastRefill)
    IN IF w.acquired
       THEN [acquired |-> TRUE, at |-> done, consumedAt |-> w.at,
             lim |-> [w.lim EXCEPT !.tokens = @ - 1, !.lastRefill = done]]
       ELSE [acquired |-> FALSE, at |-> w.at, consumedAt |-> Null, lim |-> w.lim]

\* a 429 on one provider backing off every provider (one global bucket)
MgrReportRateLimitErrorGlobal(lims, id) ==
    [x \in DOMAIN lims |-> LimReportRateLimitError(GetLimiter(lims, x), EffectiveConfig(x))]

\* RateLimiterManager.reportSuccess / reportRateLimitError / reportError
MgrReportSuccess(lims, id) ==
    IF lims[id].created THEN [lims EXCEPT ![id] = LimReportSuccess(@)] ELSE lims
MgrReportRateLimitError(lims, id) ==
    [lims EXCEPT ![id] = LimReportRateLimitError(GetLimiter(lims, id), EffectiveConfig(id))]
MgrReportError(lims, id) ==
    [lims EXCEPT ![id] = LimReportError(GetLimiter(lims, id), EffectiveConfig(id))]

(***************************************************************************)
(* Manager, health checker and selector: the operations.                   *)
(***************************************************************************)
healthCheckIntervalMs == 30 * 1000   \* ProviderManagerOptions.healthCheckIntervalMs of this instance

NoRet == [op |-> "none", id |-> None, url |-> << >>]

\* the outcome of an operation that returns nothing and has called
\* notifyListeners(): every subscribed listener was invoked with getState()
Notified == [op |-> "none", id |-> None, url |-> << >>, notified |-> TRUE]

\* ProviderManager.getState, which notifyListeners calls, is not read-only.
\* Its selector.getBestProvider(network) leaves the best-provider cache ...
GetStateCache(res, cache, custom, auto, selected) ==
    [cache EXCEPT ![network] = GetBestProviderIn(res, network, @, custom, auto, selected).cache]

\* ... and its rateLimiter.getState(id) refills the bucket of every provider
\* of the network that has a limiter
GetStateLimiters(lims) ==
    [id \in DOMAIN lims |->
        IF lims[id].created /\ id \in SeqToSet(GetProvidersForNetwork(network))
        THEN RefillAt(lims[id], EffectiveConfig(id), now)
        ELSE lims[id]]

\* new ProviderManager({ adapter: a })
Constructed(a) ==
    /\ now = 0
    /\ ticks = 0
    /\ tests = 0
    /\ reports = 0
    /\ optAdapter = a
    /\ adapter = "node"
    /\ initialized = FALSE
    /\ network = None
    /\ isTesting = FALSE
    /\ initPending = << >>
    /\ epoch = 0
    /\ healthCheckInterval = Null
    /\ results = [p \in Providers |-> NoResult]
    /\ highestSeqno = [n \in Networks |-> 0]
    /\ selectedProviderId = None
    /\ autoSelect = TRUE
    /\ customEndpoint = NoEndpoint
    /\ bestProviderByNetwork = [n \in Networks |-> None]
    /\ probes = {}
    /\ configs = [id \in LimiterIds |-> NoConfig]
    /\ limiters = [id \in LimiterIds |-> NoLimiter]
    /\ calls = << >>
    /\ microtasks = << >>
    /\ timers = << >>
    /\ pending429 = [k |-> 0, at |-> 0]
    /\ ret = NoRet

\* new ProviderManager(): DEFAULT_OPTIONS.adapter is 'node'
Init == Constructed("node")

\* HealthChecker.testProviders on the providers of network n: the probes of
\* the batch started synchronously.  Every network of this registry has at
\* most batchSize = 2 providers, so a sweep is a single batch.
SweepBatch(n) ==
    {[provider |-> p, start |-> now, epoch |-> epoch, owner |-> 0, init |-> FALSE] :
        p \in SeqToSet(GetProvidersForNetwork(n))}

SweepProbes == {q \in probes : q.owner = 0}

\* ProviderManager.testAllProviders up to its first suspension, on the
\* component set `e` with results `res`; `byInit` tells that init() awaits it
StartSweep(res, e, byInit) ==
    LET n == network IN
    /\ tests' = tests + 1
    /\ isTesting' = TRUE
    /\ probes' = probes \cup {[q EXCEPT !.epoch = e, !.init = byInit] : q \in SweepBatch(n)}
    /\ results' = [p \in Providers |->
                     IF ProviderNetwork(p) = n THEN TestingResult ELSE res[p]]

\* init(network, testProviders) up to `await loadConfig()`, at most maxInits
\* calls in a behaviour.  The suspended call keeps its arguments; `epoch` notes
\* the component set there was when it was made.
\* testAllProviders: the notifyListeners() after isTesting = true, on the
\* results of before the sweep
SweepNotifies ==
    /\ bestProviderByNetwork' = GetStateCache(results, bestProviderByNetwork, customEndpoint,
                                              autoSelect, selectedProviderId)
    /\ limiters' = GetStateLimiters(limiters)
    /\ ret' = Notified

InitCallWithin(n, test, maxInits) ==
    /\ epoch + Len(initPending) < maxInits
    /\ ~(initialized /\ network = n)
    /\ network' = n
    /\ initPending' = Append(initPending, [test |-> test, network |-> n, epoch |-> epoch])
    /\ ret' = NoRet
    /\ UNCHANGED << now, ticks, tests, reports, adapterVars, initialized, isTesting, epoch,
                    healthCheckInterval, healthVars, selVars, probes, limVars, acqVars >>

InitCall(n, test) == InitCallWithin(n, test, MaxInits)

\* init, from the completion of loadConfig() to the next suspension: the
\* components are replaced, initialized = true, the listeners are notified
InitLoaded(i) ==
    /\ i \in 1..Len(initPending)
    /\ initPending' = SubSeq(initPending, 1, i - 1) \o SubSeq(initPending, i + 1, Len(initPending))
    /\ epoch' = epoch + 1
    /\ initialized' = TRUE
    /\ network' = network
    /\ configs' = [id \in LimiterIds |-> IF id \in Providers THEN InitRateConfig(id) ELSE NoConfig]
    /\ limiters' = [id \in LimiterIds |-> NoLimiter]
    /\ highestSeqno' = [n \in Networks |-> 0]
    /\ selectedProviderId' = None
    /\ adapter' = "node"      \* createSelector(registry, healthChecker, undefined, logger)
    /\ autoSelect' = TRUE
    /\ customEndpoint' = NoEndpoint
    /\ bestProviderByNetwork' = [n \in Networks |-> None]
    \* after a destroy() the network is null: the sweep finds no provider
    \* to probe and ends where it began
    /\ IF initPending[i].test /\ ~isTesting /\ network # None
       THEN /\ StartSweep([p \in Providers |-> NoResult], epoch + 1, TRUE)
            /\ UNCHANGED healthCheckInterval
       ELSE /\ results' = [p \in Providers |-> NoResult]
            /\ healthCheckInterval' = now + healthCheckIntervalMs
            /\ UNCHANGED << isTesting, probes, tests >>
    \* notifyListeners(): getState finds no limiter to refill and no health
    \* result to cache a best provider from
    /\ ret' = Notified
    /\ UNCHANGED << now, ticks, reports, optAdapter, acqVars >>

\* ProviderManager.testAllProviders, called by the application
TestAllProviders ==
    /\ initialized
    /\ IF isTesting \/ network = None
       THEN /\ ret' = NoRet
            /\ UNCHANGED << isTesting, probes, results, tests, bestProviderByNetwork, limiters >>
       ELSE /\ tests < MaxTests
            /\ SweepNotifies
            /\ StartSweep(results, epoch, FALSE)
    /\ UNCHANGED << now, ticks, reports, adapterVars, initialized, network, initPending, epoch,
                    healthCheckInterval, highestSeqno, selectedProviderId, autoSelect,
                    customEndpoint, configs, acqVars >>

\* the setInterval callback of startHealthCheckInterval
HealthCheckTick ==
    /\ healthCheckInterval # Null
    /\ now >= healthCheckInterval
    /\ healthCheckInterval' = healthCheckInterval + healthCheckIntervalMs
    /\ IF initialized /\ ~isTesting /\ network # None
       THEN /\ tests < MaxTests
            /\ SweepNotifies
            /\ StartSweep(results, epoch, FALSE)
       ELSE /\ ret' = NoRet
            /\ UNCHANGED << isTesting, probes, results, tests, bestProviderByNetwork, limiters >>
    /\ UNCHANGED << now, ticks, reports, adapterVars, initialized, network, initPending, epoch,
                    highestSeqno, selectedProviderId, autoSelect, customEndpoint, configs,
                    acqVars >>

\* ProviderManager.testProvider(id) up to the first suspension of
\* HealthChecker.testProvider
TestProvider(p) ==
    /\ initialized
    /\ tests < MaxTests
    /\ tests' = tests + 1
    /\ probes' = probes \cup {[provider |-> p, start |-> now, epoch |-> epoch,
                               owner |-> tests + 1, init |-> FALSE]}
    /\ results' = [results EXCEPT ![p] = TestingResult]
    /\ ret' = NoRet
    /\ UNCHANGED << now, ticks, reports, mgrVars, highestSeqno, selVars, limVars, acqVars >>

\* the manager holds its components (registry, health checker, rate limiter,
\* selector): init() has configured a limiter for every provider
HasComponents == \E id \in Providers : configs[id] # NoConfig

\* testAllProviders rejected with a TypeError
SweepFailed == [op |-> "testAllProviders", id |-> "TypeError", url |-> << >>]

\* The end of testAllProviders once the last probe of the sweep has
\* settled: selector.updateBestProvider, isTesting = false,
\* notifyListeners(), and the rest of an init() that was awaiting the sweep
\* (startHealthCheckInterval).  The completion of a probe of a single
\* testProvider(id) call returns its result to the caller and nothing more.
\* After destroy() the manager holds no selector: updateBestProvider is
\* called on null, the TypeError goes to whoever awaits the sweep, and the
\* finally block clears isTesting.  On a manager whose network is null the
\* selector and getState find no provider.
FinishSweep(q, newProbes, newResults) ==
    IF q.owner = 0 /\ {r \in newProbes : r.owner = 0} = {}
    THEN IF ~HasComponents
    THEN /\ isTesting' = FALSE
         /\ ret' = SweepFailed
         /\ UNCHANGED << bestProviderByNetwork, healthCheckInterval, limiters >>
    ELSE IF network = None
    THEN /\ isTesting' = FALSE
         /\ ret' = Notified
         /\ healthCheckInterval' = IF q.init THEN now + healthCheckIntervalMs
                                   ELSE healthCheckInterval
         /\ UNCHANGED << bestProviderByNetwork, limiters >>
    ELSE /\ bestProviderByNetwork' =
               GetStateCache(newResults,
                             [bestProviderByNetwork EXCEPT
                                ![network] = FindBestProvider(newResults, network, @).cache],
                             customEndpoint, autoSelect, selectedProviderId)
         /\ isTesting' = FALSE
         /\ limiters' = GetStateLimiters(limiters)
         /\ ret' = Notified
         /\ healthCheckInterval' = IF q.init THEN now + healthCheckIntervalMs
                                   ELSE healthCheckInterval
    ELSE /\ ret' = NoRet
         /\ UNCHANGED << bestProviderByNetwork, isTesting, healthCheckInterval, limiters >>

\* HealthChecker.testProvider, success branch
ProbeSucceed(q, seqno) ==
    /\ q \in probes
    /\ now - q.start <= timeoutMs
    /\ probes' = probes \ {q}
    /\ IF q.epoch = epoch
       THEN /\ highestSeqno' = [highestSeqno EXCEPT
                                  ![ProviderNetwork(q.provider)] =
                                      NewHighest(ProviderNetwork(q.provider), seqno)]
            /\ results' = [results EXCEPT ![q.provider] =
                             SuccessResult(ProviderNetwork(q.provider), seqno, now - q.start)]
       ELSE UNCHANGED << highestSeqno, results >>
    /\ FinishSweep(q, probes', results')
    /\ UNCHANGED << now, ticks, tests, reports, adapterVars, initialized, network, initPending, epoch,
                    selectedProviderId, autoSelect, customEndpoint, configs, acqVars >>

\* HealthChecker.testProvider, catch branch
ProbeFail(q, err) ==
    /\ q \in probes
    /\ IF "AbortError" \in err THEN now - q.start >= timeoutMs ELSE now - q.start <= timeoutMs
    /\ probes' = probes \ {q}
    /\ IF q.epoch = epoch
       THEN results' = [results EXCEPT ![q.provider] = FailureResult(err, now - q.start)]
       ELSE UNCHANGED results
    /\ FinishSweep(q, probes', results')
    /\ UNCHANGED << now, ticks, tests, reports, adapterVars, initialized, network, initPending, epoch, highestSeqno,
                    selectedProviderId, autoSelect, customEndpoint, configs, acqVars >>

\* isRateLimitError (utils/timeout.ts); an error is the set of the markers
\* its lower-cased message contains, "status429" standing for error.status
IsRateLimitError(err) == "status429" \in err \/ "rate limit" \in err \/ "429" \in err

\* the classification of ProviderManager.reportError
ErrorClass(err) ==
    IF IsRateLimitError(err) \/ "429" \in err \/ "rate limit" \in err THEN "rateLimit"
    ELSE IF err \cap {"503", "service unavailable", "502", "bad gateway",
                      "404", "not found", "timeout", "abort"} # {}
    THEN "offline"
    ELSE "other"

ReportedErrors == { {"429"}, {"503"}, {"timeout"}, {} }

\* the state left by selector.getBestProvider(network)
AfterGetBestProvider(r) ==
    bestProviderByNetwork' = [bestProviderByNetwork EXCEPT ![network] = r.cache]

\* ProviderManager.getActiveProvider
GetActiveProvider ==
    /\ initialized
    /\ LET r == GetBestProvider(network) IN
         /\ AfterGetBestProvider(r)
         /\ ret' = [op |-> "getBestProvider", id |-> r.ret, url |-> << >>]
    /\ UNCHANGED << now, ticks, tests, reports, mgrVars, healthVars, selectedProviderId, autoSelect,
                    customEndpoint, probes, limVars, acqVars >>

\* ProviderManager.getEndpoint
GetEndpoint ==
    /\ initialized
    /\ LET r == GetBestProvider(network) IN
         /\ AfterGetBestProvider(r)
         /\ ret' = [op |-> "getEndpoint", id |-> r.ret,
                    url |-> IF r.ret = None THEN GetFallbackEndpoint(network)
                            ELSE IF r.ret = "custom" THEN NormalizeV2Endpoint(customEndpoint)
                            ELSE NormalizeV2Endpoint(EndpointV2(r.ret))]
    /\ UNCHANGED << now, ticks, tests, reports, mgrVars, healthVars, selectedProviderId, autoSelect,
                    customEndpoint, probes, limVars, acqVars >>

\* ProviderManager.getEndpointWithRateLimit(acquireTimeoutMs), from the call
\* to the return, nothing else happening while it awaits the token: the
\* clock moves to the time of the return
GetEndpointWithRateLimit(acquireTimeoutMs) ==
    /\ initialized
    /\ ticks < MaxTicks
    /\ ticks' = ticks + 1
    /\ UNCHANGED << tests, reports, mgrVars, healthVars, selectedProviderId, autoSelect,
                    customEndpoint, probes, configs, acqVars >>
    /\ LET r == GetBestProvider(network) IN
         /\ AfterGetBestProvider(r)
         /\ IF r.ret = None
            THEN /\ ret' = [op |-> "getEndpointWithRateLimit", id |-> None,
                            url |-> GetFallbackEndpoint(network)]
                 /\ UNCHANGED << now, limiters >>
            ELSE \E p \in {r.ret} :
                 LET a == AcquireAlone(GetLimiter(limiters, p), EffectiveConfig(p),
                                       now, acquireTimeoutMs)
                     endpointV2 == IF p = "custom" THEN customEndpoint ELSE EndpointV2(p)
                 IN /\ limiters' = [limiters EXCEPT ![p] = a.lim]
                    /\ now' = a.at
                    /\ IF a.acquired
                       THEN ret' = [op |-> "getEndpointWithRateLimit", id |-> p,
                                    url |-> NormalizeV2Endpoint(endpointV2)]
                       ELSE \* getNextProvider runs after the await: it reads the
                            \* clock and the results of the time of the return
                            \E next \in {GetNextProvider(results, network, {p})'} :
                               ret' = [op |-> "getEndpointWithRateLimit", id |-> next,
                                       url |-> IF next = None THEN GetFallbackEndpoint(network)
                                               ELSE NormalizeV2Endpoint(EndpointV2(next))]

\* ProviderManager.reportSuccess
ReportSuccess ==
    /\ initialized
    /\ LET r == GetBestProvider(network) IN
         /\ AfterGetBestProvider(r)
         /\ limiters' = IF r.ret = None THEN limiters ELSE MgrReportSuccess(limiters, r.ret)
         /\ ret' = [op |-> "reportSuccess", id |-> r.ret, url |-> << >>]
    /\ UNCHANGED << now, ticks, tests, reports, mgrVars, healthVars, selectedProviderId, autoSelect,
                    customEndpoint, probes, configs, acqVars >>

\* ProviderManager.reportError: the limiter operation, the health mark,
\* selector.handleProviderFailure and notifyListeners(); at most maxReports
\* reports and marks in a behaviour
ReportErrorWithin(err, maxReports) ==
    /\ initialized
    /\ reports < maxReports
    /\ reports' = reports + 1
    /\ LET r == GetBestProvider(network)
           p == r.ret
           class == ErrorClass(err)
       IN IF p = None
          THEN /\ AfterGetBestProvider(r)
               /\ UNCHANGED << results, limiters >>
               /\ ret' = [op |-> "reportError", id |-> None, url |-> << >>]
          ELSE /\ limiters' = GetStateLimiters(IF class = "rateLimit"
                                               THEN MgrReportRateLimitError(limiters, p)
                                               ELSE MgrReportError(limiters, p))
               /\ results' = IF p \notin Providers THEN results
                             ELSE IF class = "offline" THEN MarkOffline(results, p)
                             ELSE MarkDegraded(results, p)
               /\ bestProviderByNetwork' =
                     GetStateCache(results',
                                   [bestProviderByNetwork EXCEPT
                                      ![network] = HandleProviderFailure(r.cache, p)],
                                   customEndpoint, autoSelect, selectedProviderId)
               /\ ret' = [op |-> "reportError", id |-> p, url |-> << >>, notified |-> TRUE]
    /\ UNCHANGED << now, ticks, tests, mgrVars, highestSeqno, selectedProviderId, autoSelect,
                    customEndpoint, probes, configs, acqVars >>

ReportError(err) == ReportErrorWithin(err, MaxReports)

\* HealthChecker.markOffline, called through manager.getHealthChecker()
MarkOfflineCall(p) ==
    /\ initialized
    /\ reports < MaxReports
    /\ reports' = reports + 1
    /\ results' = MarkOffline(results, p)
    /\ ret' = [op |-> "markOffline", id |-> p, url |-> << >>]
    /\ UNCHANGED << now, ticks, tests, mgrVars, highestSeqno, selVars, probes, limVars, acqVars >>

\* HealthChecker.markDegraded, called through manager.getHealthChecker()
MarkDegradedCall(p) ==
    /\ initialized
    /\ reports < MaxReports
    /\ reports' = reports + 1
    /\ results' = MarkDegraded(results, p)
    /\ ret' = [op |-> "markDegraded", id |-> p, url |-> << >>]
    /\ UNCHANGED << now, ticks, tests, mgrVars, highestSeqno, selVars, probes, limVars, acqVars >>

\* the notifyListeners() that ends setSelectedProvider, setAutoSelect and
\* setCustomEndpoint, on the overrides the setter has just written
SetterNotifies(custom, auto, selected) ==
    /\ bestProviderByNetwork' = GetStateCache(results, bestProviderByNetwork, custom, auto,
                                              selected)
    /\ limiters' = GetStateLimiters(limiters)
    /\ ret' = Notified

\* ProviderManager.setSelectedProvider
SetSelectedProvider(id) ==
    /\ initialized
    /\ selectedProviderId' = id
    /\ autoSelect' = IF id # None THEN FALSE ELSE autoSelect
    /\ SetterNotifies(customEndpoint, autoSelect', selectedProviderId')
    /\ UNCHANGED << now, ticks, tests, reports, mgrVars, healthVars, customEndpoint,
                    probes, configs, acqVars >>

\* ProviderManager.setAutoSelect
SetAutoSelect(enabled) ==
    /\ initialized
    /\ autoSelect' = enabled
    /\ selectedProviderId' = IF enabled THEN None ELSE selectedProviderId
    /\ SetterNotifies(customEndpoint, autoSelect', selectedProviderId')
    /\ UNCHANGED << now, ticks, tests, reports, mgrVars, healthVars, customEndpoint,
                    probes, configs, acqVars >>

\* ProviderManager.setCustomEndpoint (endpoint?.trim() || null)
SetCustomEndpoint(endpoint) ==
    /\ initialized
    /\ customEndpoint' = Trim(endpoint)
    /\ SetterNotifies(customEndpoint', autoSelect, selectedProviderId)
    /\ UNCHANGED << now, ticks, tests, reports, mgrVars, healthVars, selectedProviderId, autoSelect,
                    probes, configs, acqVars >>

\* the clock (Date.now()) advances
Tick(d) ==
    /\ ticks < MaxTicks
    /\ now' = now + d
    /\ ticks' = ticks + 1
    /\ ret' = NoRet
    /\ UNCHANGED << tests, reports, mgrVars, healthVars, selVars, probes, limVars, acqVars >>

\* The manager in auto-select mode: initialisation, health sweeps and single
\* tests, endpoint resolution, error reports, the clock.
Next ==
    \/ \E n \in Networks, test \in BOOLEAN : InitCall(n, test)
    \/ \E i \in 1..Len(initPending) : InitLoaded(i)
    \/ TestAllProviders
    \/ HealthCheckTick
    \/ \E p \in SeqToSet(GetProvidersForNetwork(network)) : TestProvider(p)
    \/ \E q \in probes, seqno \in SeqnoValues : ProbeSucceed(q, seqno)
    \/ \E q \in probes, err \in ProbeErrors : ProbeFail(q, err)
    \/ GetActiveProvider
    \/ GetEndpoint
    \/ \E err \in ReportedErrors : ReportError(err)
    \/ \E p \in SeqToSet(GetProvidersForNetwork(network)) : MarkOfflineCall(p)
    \/ \E p \in SeqToSet(GetProvidersForNetwork(network)) : MarkDegradedCall(p)
    \/ \E d \in TickSteps : Tick(d)

Spec == Init /\ [][Next]_vars

(***************************************************************************)
(* The manager under overrides: a custom endpoint, a manual selection,     *)
(* rate-limited resolution, success and error reports.                     *)
(***************************************************************************)
OverrideTimeouts == {100, 1000}
OverrideErrors == { {"429"}, {"503"} }

OverrideNext ==
    \/ InitCall("testnet", FALSE)
    \/ \E i \in 1..Len(initPending) : InitLoaded(i)
    \/ TestProvider("P1")
    \/ \E q \in probes : ProbeSucceed(q, 1000)
    \/ \E x \in CustomEndpoints : SetCustomEndpoint(x)
    \/ SetSelectedProvider("P2")
    \/ GetEndpoint
    \/ \E t \in OverrideTimeouts : GetEndpointWithRateLimit(t)
    \/ ReportSuccess
    \/ \E err \in OverrideErrors : ReportError(err)

OverrideSpec == Init /\ [][OverrideNext]_vars

(***************************************************************************)
(* The manager with a subscribed listener: initialisation with and without *)
(* the first sweep, sweeps and single tests, error reports, the setters,   *)
(* the active provider read back.                                          *)
(***************************************************************************)
NotifyErrors == { {"429"}, {"503"} }
NotifyEndpoints == { << "https://my.proxy", "api", "v2" >>, << " " >> }

NotifyNext ==
    \/ \E test \in BOOLEAN : InitCall("testnet", test)
    \/ \E i \in 1..Len(initPending) : InitLoaded(i)
    \/ TestAllProviders
    \/ \E p \in SeqToSet(GetProvidersForNetwork(network)) : TestProvider(p)
    \/ \E q \in probes : ProbeSucceed(q, 1000)
    \/ \E q \in probes : ProbeFail(q, {"503"})
    \/ \E err \in NotifyErrors : ReportError(err)
    \/ \E id \in {"P2", None} : SetSelectedProvider(id)
    \/ \E enabled \in BOOLEAN : SetAutoSelect(enabled)
    \/ \E x \in NotifyEndpoints : SetCustomEndpoint(x)
    \/ GetActiveProvider

NotifySpec == Init /\ [][NotifyNext]_vars

(***************************************************************************)
(* The selector on its own, created for the browser:                       *)
(* createSelector(registry, createHealthChecker(), undefined, logger,      *)
(* 'browser'), with the health checker driven directly.                    *)
(***************************************************************************)
SelErrors == { {"503"}, {"429"} }
SelExcludes == { {}, {"P1"} }

\* ProviderSelector.getAvailableProviders: the providers of positive score,
\* best first (a stable sort of the registry's list)
RECURSIVE SortByScore(_, _)
SortByScore(res, ps) ==
    IF Len(ps) = 0 THEN << >>
    ELSE LET top == TopScored(res, ps)
         IN << top >> \o SortByScore(res, SelectSeq(ps, LAMBDA p : p # top))

GetAvailableProviders(res, n) ==
    LET all == GetProvidersForNetwork(n)
        providers == IF adapter = "browser" THEN FilterBrowserCompatible(all) ELSE all
    IN SortByScore(res, SelectSeq(providers, LAMBDA p : ScoreProvider(res, p) > 0))

\* the registry, health checker and selector just created, no manager
SelInit ==
    /\ now = 0
    /\ ticks = 0
    /\ tests = 0
    /\ reports = 0
    /\ optAdapter = "node"
    /\ adapter = "browser"
    /\ initialized = FALSE
    /\ network = None
    /\ isTesting = FALSE
    /\ initPending = << >>
    /\ epoch = 0
    /\ healthCheckInterval = Null
    /\ results = [p \in Providers |-> NoResult]
    /\ highestSeqno = [n \in Networks |-> 0]
    /\ selectedProviderId = None
    /\ autoSelect = TRUE
    /\ customEndpoint = NoEndpoint
    /\ bestProviderByNetwork = [n \in Networks |-> None]
    /\ probes = {}
    /\ configs = [id \in LimiterIds |-> NoConfig]
    /\ limiters = [id \in LimiterIds |-> NoLimiter]
    /\ calls = << >>
    /\ microtasks = << >>
    /\ timers = << >>
    /\ pending429 = [k |-> 0, at |-> 0]
    /\ ret = NoRet

\* HealthChecker.testProvider(provider) up to its first suspension
HcTestProvider(p) ==
    /\ tests < MaxTests
    /\ tests' = tests + 1
    /\ probes' = probes \cup {[provider |-> p, start |-> now, epoch |-> epoch,
                               owner |-> tests + 1, init |-> FALSE]}
    /\ results' = [results EXCEPT ![p] = TestingResult]
    /\ ret' = NoRet
    /\ UNCHANGED << now, ticks, reports, mgrVars, highestSeqno, selVars, limVars, acqVars >>

\* ProviderSelector.getBestProvider(n)
SelGetBestProvider(n) ==
    /\ LET r == GetBestProvider(n) IN
         /\ bestProviderByNetwork' = [bestProviderByNetwork EXCEPT ![n] = r.cache]
         /\ ret' = [op |-> "selector.getBestProvider", id |-> r.ret, url |-> << >>]
    /\ UNCHANGED << now, ticks, tests, reports, mgrVars, healthVars, selectedProviderId,
                    autoSelect, customEndpoint, probes, limVars, acqVars >>

\* ProviderSelector.getNextProvider(n, excludeIds)
SelGetNextProvider(n, excludeIds) ==
    /\ ret' = [op |-> "selector.getNextProvider",
               id |-> GetNextProvider(results, n, excludeIds), url |-> << >>]
    /\ UNCHANGED << now, ticks, tests, reports, mgrVars, healthVars, selVars, probes,
                    limVars, acqVars >>

\* ProviderSelector.getAvailableProviders(n): the list is ret.ids
SelGetAvailableProviders(n) ==
    /\ ret' = [op |-> "selector.getAvailableProviders", id |-> None, url |-> << >>,
               ids |-> GetAvailableProviders(results, n)]
    /\ UNCHANGED << now, ticks, tests, reports, mgrVars, healthVars, selVars, probes,
                    limVars, acqVars >>

SelNext ==
    \/ \E p \in Providers : HcTestProvider(p)
    \/ \E q \in probes, seqno \in SeqnoValues : ProbeSucceed(q, seqno)
    \/ \E q \in probes, err \in SelErrors : ProbeFail(q, err)
    \/ \E n \in Networks : SelGetBestProvider(n)
    \/ \E n \in Networks, excludeIds \in SelExcludes : SelGetNextProvider(n, excludeIds)
    \/ \E n \in Networks : SelGetAvailableProviders(n)
    \/ \E d \in TickSteps : Tick(d)

SelSpec == SelInit /\ [][SelNext]_vars

(***************************************************************************)
(* The manager and its health probes: either adapter option, responses of  *)
(* getMasterchainInfo with and without a usable seqno, permanent HTTP      *)
(* errors, endpoint resolution, the clock.                                 *)
(***************************************************************************)
\* A response of getMasterchainInfo: whether `last.seqno` is there, and its
\* value
Responses ==
    { [hasSeqno |-> TRUE, seqno |-> 1000],
      [hasSeqno |-> FALSE, seqno |-> 0],
      [hasSeqno |-> TRUE, seqno |-> 0],
      [hasSeqno |-> TRUE, seqno |-> 0 - 5] }

\* a response whose seqno is missing or not a positive integer
InvalidResponses == {info \in Responses : ~info.hasSeqno \/ info.seqno <= 0}

\* testProvider: `info.last?.seqno || 0`
ExtractSeqno(info) == IF ~info.hasSeqno \/ info.seqno = 0 THEN 0 ELSE info.seqno

\* `HTTP 404`, `HTTP 401`, `HTTP 403` thrown by callGetMasterchainInfo
PermanentErrors == { {"404"}, {"401"}, {"403"} }

\* HealthChecker.testProvider from the response of getMasterchainInfo on
ProbeResponds(q, info) == ProbeSucceed(q, ExtractSeqno(info))

\* new ProviderManager({ adapter }) with either adapter
ProbeInit == \E a \in Adapters : Constructed(a)

ProbeNext ==
    \/ InitCall("testnet", FALSE)
    \/ \E i \in 1..Len(initPending) : InitLoaded(i)
    \/ \E p \in SeqToSet(GetProvidersForNetwork(network)) : TestProvider(p)
    \/ \E q \in probes, info \in Responses : ProbeResponds(q, info)
    \/ \E q \in probes, err \in PermanentErrors : ProbeFail(q, err)
    \/ GetActiveProvider
    \/ GetEndpoint
    \/ \E t \in OverrideTimeouts : GetEndpointWithRateLimit(t)
    \/ \E d \in TickSteps : Tick(d)

ProbeSpec == ProbeInit /\ [][ProbeNext]_vars

(***************************************************************************)
(* Initialisation: calls of init() that overlap, follow one another or     *)
(* fail in loadConfig(), with something to lose in between: a probe        *)
(* result, a manual selection, a consumed token.                           *)
(***************************************************************************)
MaxInitCalls == 2    \* init() calls that get past loadConfig() or wait in it

\* init() rejected by loadConfig() (rpc.json unreadable or invalid)
InitRejected == [op |-> "init", id |-> "rejected", url |-> << >>]

\* init, loadConfig() rejecting: the call ends there
InitFailed(i) ==
    /\ i \in 1..Len(initPending)
    /\ initPending' = SubSeq(initPending, 1, i - 1) \o SubSeq(initPending, i + 1, Len(initPending))
    /\ ret' = InitRejected
    /\ UNCHANGED << now, ticks, tests, reports, adapterVars, initialized, network, isTesting,
                    epoch, healthCheckInterval, healthVars, selVars, probes, limVars, acqVars >>

\* getEndpoint / getEndpointWithRateLimit on a manager that is not
\* initialised: ensureInitialized throws
NotInitialized == [op |-> "getEndpoint", id |-> "notInitialized", url |-> << >>]

GetEndpointNotInitialized ==
    /\ ~initialized
    /\ ret' = NotInitialized
    /\ UNCHANGED << now, ticks, tests, reports, mgrVars, healthVars, selVars, probes,
                    limVars, acqVars >>

InitNext ==
    \/ \E n \in Networks : InitCallWithin(n, FALSE, MaxInitCalls)
    \/ \E i \in 1..Len(initPending) : InitLoaded(i)
    \/ \E i \in 1..Len(initPending) : InitFailed(i)
    \/ TestProvider("P1")
    \/ \E q \in probes : ProbeSucceed(q, 1000)
    \/ SetSelectedProvider("P2")
    \/ GetEndpoint
    \/ GetEndpointNotInitialized
    \/ \E t \in OverrideTimeouts : GetEndpointWithRateLimit(t)

InitSpec == Init /\ [][InitNext]_vars

(***************************************************************************)
(* The health checker under sweeps and single tests whose probes complete  *)
(* in any order, with higher and lower seqnos, failures and explicit marks.*)
(***************************************************************************)
HealthResponses == Responses \cup { [hasSeqno |-> TRUE, seqno |-> 980] }

\* the clock advances by less than the probe timeout (a slow answer), or by
\* more
HealthTicks == {5000} \cup TickSteps

HealthNext ==
    \/ InitCall("testnet", FALSE)
    \/ \E i \in 1..Len(initPending) : InitLoaded(i)
    \/ TestAllProviders
    \/ \E p \in SeqToSet(GetProvidersForNetwork(network)) : TestProvider(p)
    \/ \E q \in probes, info \in HealthResponses : ProbeResponds(q, info)
    \/ \E q \in probes, err \in ProbeErrors : ProbeFail(q, err)
    \/ \E p \in SeqToSet(GetProvidersForNetwork(network)) : MarkOfflineCall(p)
    \/ \E p \in SeqToSet(GetProvidersForNetwork(network)) : MarkDegradedCall(p)
    \/ \E d \in HealthTicks : Tick(d)

HealthSpec == Init /\ [][HealthNext]_vars

(***************************************************************************)
(* Rate limiter: acquire().  One limiter, driven by concurrent callers.    *)
(* Every step is one JavaScript job: a timer callback or a promise job,    *)
(* run to completion.                                                      *)
(***************************************************************************)
MaxCalls == 4        \* acquire() invocations per behaviour
MaxLimErrors == 2    \* 429 reports per behaviour
MaxNow == 3500       \* the clock stops advancing here

LimId == "P1"

\* rps = 1, burstSize = 1, minDelayMs = 1000; and what init() configures for
\* a provider of rps = 2
LimConfigs ==
    { [DEFAULT_RATE_LIMIT EXCEPT !.burstSize = 1],
      [DEFAULT_RATE_LIMIT EXCEPT !.rps = 2, !.burstSize = 1, !.minDelayMs = InitMinDelayMs(2)] }

\* acquire(timeoutMs): a short timeout, and the default of 60 s
AcquireTimeouts == {500, 60000}

InCriticalSection == {"backoff", "poll", "delay"}

\* the state an acquire() job works on
Machine == [lim |-> limiters[LimId], calls |-> calls, micro |-> microtasks, timers |-> timers]

Cfg == configs[LimId]

\* TokenBucketRateLimiter.refill
Refill(l, cfg) == RefillAt(l, cfg, now)

\* setTimeout(callback, dur) / setInterval(callback, dur) called now
AddTimer(m, i, kind, dur) ==
    [m EXCEPT !.timers = Append(@, [call |-> i, kind |-> kind, at |-> now + dur, dur |-> dur])]

\* await sleep(dur) inside acquire
Sleep(m, i, pc, dur) == AddTimer([m EXCEPT !.calls[i].pc = pc], i, "sleep", dur)

\* the promise returned by acquire() settles with result res: the caller,
\* suspended in `await limiter.acquire(t)`, is queued to resume
Return(m, i, res) ==
    [m EXCEPT !.calls[i].pc = "done", !.calls[i].result = res, !.calls[i].doneAt = now,
              !.micro = Append(@, [kind |-> "caller", call |-> i])]

\* a finally block that releases the flag and signals nobody
FinallyNoSignal(m, i, res) == Return([m EXCEPT !.lim.processing = FALSE], i, res)

\* acquire, the finally block; then the return
Finally(m, i, res) ==
    LET q == m.lim.requestQueue
        m1 == [m EXCEPT !.lim.processing = FALSE]
        m2 == IF Len(q) > 0
              THEN [m1 EXCEPT !.lim.requestQueue = Tail(q),
                              !.calls[Head(q)].settled = "true",
                              !.micro = Append(@, [kind |-> "resume", call |-> Head(q)])]
              ELSE m1
    IN Return(m2, i, res)

\* acquire: `this.lastRefill = Date.now(); return true`
Complete(m, i) == Finally([m EXCEPT !.lim.lastRefill = now], i, "true")

\* acquire: consume the token, enforce the minimum delay
Consume(m, i) ==
    LET m1 == [m EXCEPT !.lim.tokens = @ - 1]
        timeSinceLastRefill == now - m.lim.lastRefill
    IN IF timeSinceLastRefill < Cfg.minDelayMs
       THEN Sleep(m1, i, "delay", Cfg.minDelayMs - timeSinceLastRefill)
       ELSE Complete(m1, i)

\* a token wait loop that gives up as soon as the bucket is empty
TokenLoopNoDeadline(m, i) ==
    IF m.lim.tokens <= 0 THEN Finally(m, i, "false") ELSE Consume(m, i)

\* acquire: the test of the token wait loop
TokenLoop(m, i) ==
    IF m.lim.tokens <= 0
    THEN IF now - m.calls[i].startTime > m.calls[i].timeoutMs
         THEN Finally(m, i, "false")
         ELSE Sleep(m, i, "poll", Min(100, Cfg.minDelayMs))
    ELSE Consume(m, i)

\* acquire, from `this.processing = true` to the first suspension or return
Enter(m, i) ==
    LET m1 == [m EXCEPT !.lim = Refill([@ EXCEPT !.processing = TRUE], Cfg),
                        !.calls[i].admitted = TRUE]
    IN IF m1.lim.currentBackoff > 0
       THEN Sleep(m1, i, "backoff", m1.lim.currentBackoff)
       ELSE TokenLoop(m1, i)

\* acquire resumed after `await sleep(this.currentBackoff)`
AfterBackoff(m, i) ==
    TokenLoop([m EXCEPT !.lim.lastRefill = now, !.lim.currentBackoff = 0], i)

\* acquire resumed after the sleep of the token wait loop
AfterPoll(m, i) == TokenLoop([m EXCEPT !.lim = Refill(@, Cfg)], i)

\* the instant before which an acquire invoked now must not return, given the
\* 429 reports made since the previous invocation: the last report's time
\* plus min(minDelayMs * backoffMultiplier^k, maxBackoffMs)
NotBefore ==
    IF pending429.k = 0 THEN 0
    ELSE pending429.at + Min(Cfg.minDelayMs * (Cfg.backoffMultiplier ^ pending429.k),
                             Cfg.maxBackoffMs)

\* acquire(timeoutMs) called: the synchronous part
Invoke(m, acquireTimeoutMs) ==
    LET i == Len(m.calls) + 1
        call == [startTime |-> now, timeoutMs |-> acquireTimeoutMs, pc |-> "new",
                 settled |-> "no", admitted |-> FALSE, result |-> "pending",
                 doneAt |-> Null, notBefore |-> NotBefore]
        m1 == [m EXCEPT !.calls = Append(@, call)]
    IN IF m.lim.processing
       THEN AddTimer([m1 EXCEPT !.lim.requestQueue = Append(@, i),
                                !.calls[i].pc = "queued"], i, "check", 1000)
       ELSE Enter(m1, i)

\* the job a promise job or timer callback ends with: store the machine
Store(m) ==
    /\ limiters' = [limiters EXCEPT ![LimId] = m.lim]
    /\ calls' = m.calls
    /\ microtasks' = m.micro
    /\ timers' = m.timers

LimFrame == UNCHANGED << ticks, tests, reports, mgrVars, healthVars, selVars, probes, configs, ret >>

LimInit ==
    /\ now = 0
    /\ ticks = 0
    /\ tests = 0
    /\ reports = 0
    /\ optAdapter = "node"
    /\ adapter = "node"
    /\ initialized = FALSE
    /\ network = None
    /\ isTesting = FALSE
    /\ initPending = << >>
    /\ epoch = 0
    /\ healthCheckInterval = Null
    /\ results = [p \in Providers |-> NoResult]
    /\ highestSeqno = [n \in Networks |-> 0]
    /\ selectedProviderId = None
    /\ autoSelect = TRUE
    /\ customEndpoint = NoEndpoint
    /\ bestProviderByNetwork = [n \in Networks |-> None]
    /\ probes = {}
    /\ \E cfg \in LimConfigs :
         /\ configs = [id \in LimiterIds |-> IF id = LimId THEN cfg ELSE NoConfig]
         /\ limiters = [id \in LimiterIds |->
                          IF id = LimId
                          THEN [created |-> TRUE, tokens |-> cfg.burstSize, lastRefill |-> 0,
                                currentBackoff |-> 0, consecutiveErrors |-> 0,
                                processing |-> FALSE, requestQueue |-> << >>]
                          ELSE NoLimiter]
    /\ calls = << >>
    /\ microtasks = << >>
    /\ timers = << >>
    /\ pending429 = [k |-> 0, at |-> 0]
    /\ ret = NoRet

\* `await limiter.acquire(t)` called from a new task: the microtask queue is
\* empty.  New callers arrive at the start or when the limiter is idle.
AcquireCall(acquireTimeoutMs) ==
    /\ microtasks = << >>
    /\ now = 0 \/ timers = << >>
    /\ Len(calls) < MaxCalls
    /\ Store(Invoke(Machine, acquireTimeoutMs))
    /\ pending429' = [k |-> 0, at |-> 0]
    /\ UNCHANGED now
    /\ LimFrame

\* promise job: acquire resumed after `await new Promise(...)`, the queue wait
ResumeWaiter ==
    /\ microtasks # << >>
    /\ Head(microtasks).kind = "resume"
    /\ LET i == Head(microtasks).call
           m == [Machine EXCEPT !.micro = Tail(@)]
       IN Store(IF calls[i].settled = "false" THEN Return(m, i, "false") ELSE Enter(m, i))
    /\ UNCHANGED << now, pending429 >>
    /\ LimFrame

\* promise job: the caller resumes after `await acquire()` and goes on
\* without calling acquire again
CallerContinues ==
    /\ microtasks # << >>
    /\ Head(microtasks).kind = "caller"
    /\ Store([Machine EXCEPT !.micro = Tail(@)])
    /\ UNCHANGED << now, pending429 >>
    /\ LimFrame

\* promise job: the caller resumes after `await acquire()` and calls acquire
\* again at once
CallerCallsAgain(acquireTimeoutMs) ==
    /\ microtasks # << >>
    /\ Head(microtasks).kind = "caller"
    /\ Len(calls) < MaxCalls
    /\ Store(Invoke([Machine EXCEPT !.micro = Tail(@)], acquireTimeoutMs))
    /\ pending429' = [k |-> 0, at |-> 0]
    /\ UNCHANGED now
    /\ LimFrame

\* a timer x may fire once it is due, after every due timer created earlier
\* whose delay is not longer
MayFire(k) ==
    /\ timers[k].at <= now
    /\ \A j \in 1..(k-1) : ~(timers[j].at <= now /\ timers[j].dur <= timers[k].dur)

RemoveAt(s, k) == SubSeq(s, 1, k - 1) \o SubSeq(s, k + 1, Len(s))

\* timer callback of sleep(), and the promise job it resumes
FireSleep(k) ==
    /\ microtasks = << >>
    /\ k \in 1..Len(timers)
    /\ timers[k].kind = "sleep"
    /\ MayFire(k)
    /\ LET i == timers[k].call
           m == [Machine EXCEPT !.timers = RemoveAt(@, k)]
       IN Store(CASE calls[i].pc = "backoff" -> AfterBackoff(m, i)
                  [] calls[i].pc = "poll" -> AfterPoll(m, i)
                  [] calls[i].pc = "delay" -> Complete(m, i))
    /\ UNCHANGED << now, pending429 >>
    /\ LimFrame

\* timer callback checkTimeout of a queued acquire (setInterval, 1000 ms).
\* Once the wait promise is settled the callback has no effect, so the timer
\* is dropped then.
FireCheckTimeout(k) ==
    /\ microtasks = << >>
    /\ k \in 1..Len(timers)
    /\ timers[k].kind = "check"
    /\ MayFire(k)
    /\ LET i == timers[k].call
           m == [Machine EXCEPT !.timers = RemoveAt(@, k)]
           q == m.lim.requestQueue
       IN Store(IF calls[i].settled # "no" THEN m
                ELSE IF now - calls[i].startTime > calls[i].timeoutMs
                THEN [m EXCEPT !.lim.requestQueue = SelectSeq(q, LAMBDA c : c # i),
                               !.calls[i].settled = "false",
                               !.micro = Append(@, [kind |-> "resume", call |-> i])]
                ELSE AddTimer(m, i, "check", 1000))
    /\ UNCHANGED << now, pending429 >>
    /\ LimFrame

\* TokenBucketRateLimiter.reportRateLimitError, from a task of its own
ReportRateLimitError ==
    /\ microtasks = << >>
    /\ limiters[LimId].consecutiveErrors < MaxLimErrors
    /\ limiters' = [limiters EXCEPT ![LimId] = LimReportRateLimitError(@, Cfg)]
    /\ pending429' = [k |-> pending429.k + 1, at |-> now]
    /\ UNCHANGED << now, calls, microtasks, timers >>
    /\ LimFrame

\* no job is runnable: the clock advances to the next timer, or by a second,
\* up to maxNow
ElapseWithin(maxNow) ==
    /\ microtasks = << >>
    /\ \A k \in 1..Len(timers) : timers[k].at > now
    /\ LET next == IF timers = << >> THEN now + 1000
                   ELSE CHOOSE t \in {timers[k].at : k \in 1..Len(timers)} :
                            \A k \in 1..Len(timers) : t <= timers[k].at
       IN /\ next <= maxNow
          /\ now' = next
    /\ UNCHANGED << limVars, acqVars >>
    /\ LimFrame

Elapse == ElapseWithin(MaxNow)

LimNext ==
    \/ \E t \in AcquireTimeouts : AcquireCall(t)
    \/ ResumeWaiter
    \/ CallerContinues
    \/ \E t \in AcquireTimeouts : CallerCallsAgain(t)
    \/ \E k \in 1..Len(timers) : FireSleep(k)
    \/ \E k \in 1..Len(timers) : FireCheckTimeout(k)
    \/ ReportRateLimitError
    \/ Elapse

LimSpec == LimInit /\ [][LimNext]_vars

(***************************************************************************)
(* Rate limiter: acquire() under the scheduling of the JavaScript event    *)
(* loop.  A promise job that is queued runs, a timer that is due fires and *)
(* time passes.  The callers arrive in the first seconds and the clock     *)
(* runs long enough for every call to end; the 429 reports come at the     *)
(* start.                                                                  *)
(***************************************************************************)
MaxQueueCalls == 3      \* acquire() invocations per behaviour
MaxQueueNow == 30000    \* the clock stops advancing here
LastArrival == 2000     \* no acquire() is invoked later than this

\* one more acquire() may be invoked
MayArrive == Len(calls) < MaxQueueCalls /\ now <= LastArrival

QueueNext ==
    \/ \E t \in AcquireTimeouts : MayArrive /\ AcquireCall(t)
    \/ ResumeWaiter
    \/ CallerContinues
    \/ \E t \in AcquireTimeouts : MayArrive /\ CallerCallsAgain(t)
    \/ \E k \in 1..Len(timers) : FireSleep(k)
    \/ \E k \in 1..Len(timers) : FireCheckTimeout(k)
    \/ now = 0 /\ ReportRateLimitError
    \/ ElapseWithin(MaxQueueNow)

QueueSpec ==
    /\ LimInit
    /\ [][QueueNext]_vars
    /\ WF_vars(ResumeWaiter)
    /\ WF_vars(CallerContinues)
    /\ WF_vars(\E k \in 1..Len(timers) : FireSleep(k))
    /\ WF_vars(\E k \in 1..Len(timers) : FireCheckTimeout(k))
    /\ WF_vars(ElapseWithin(MaxQueueNow))

(***************************************************************************)
(* Rate limiter: one caller alternating acquire() and reports on a limiter *)
(* of minDelayMs = 100 and backoffMultiplier = 2.                          *)
(***************************************************************************)
MaxSeqAcquires == 4   \* acquire() calls per behaviour
MaxSeqReports == 4    \* reports per behaviour

QUICKNODE_RATE_LIMIT == [rps |-> 10, burstSize |-> 15, minDelayMs |-> 100,
                         backoffMultiplier |-> 2, maxBackoffMs |-> 10000]

SeqTimeouts == {100, 60000}

SeqFrame == UNCHANGED << tests, mgrVars, healthVars, selVars, probes, configs, acqVars >>

SeqInit ==
    /\ now = 0
    /\ ticks = 0
    /\ tests = 0
    /\ reports = 0
    /\ optAdapter = "node"
    /\ adapter = "node"
    /\ initialized = FALSE
    /\ network = None
    /\ isTesting = FALSE
    /\ initPending = << >>
    /\ epoch = 0
    /\ healthCheckInterval = Null
    /\ results = [p \in Providers |-> NoResult]
    /\ highestSeqno = [n \in Networks |-> 0]
    /\ selectedProviderId = None
    /\ autoSelect = TRUE
    /\ customEndpoint = NoEndpoint
    /\ bestProviderByNetwork = [n \in Networks |-> None]
    /\ probes = {}
    /\ configs = [id \in LimiterIds |-> IF id = LimId THEN QUICKNODE_RATE_LIMIT ELSE NoConfig]
    /\ limiters = [id \in LimiterIds |->
                     IF id = LimId
                     THEN [created |-> TRUE, tokens |-> QUICKNODE_RATE_LIMIT.burstSize,
                           lastRefill |-> 0, currentBackoff |-> 0, consecutiveErrors |-> 0,
                           processing |-> FALSE, requestQueue |-> << >>]
                     ELSE NoLimiter]
    /\ calls = << >>
    /\ microtasks = << >>
    /\ timers = << >>
    /\ pending429 = [k |-> 0, at |-> 0]
    /\ ret = NoRet

\* `await limiter.acquire(t)`, from the call to the return: ret tells the
\* result, the backoff the call found and slept, and when it took its token
SeqAcquire(acquireTimeoutMs) ==
    /\ ticks < MaxSeqAcquires
    /\ ticks' = ticks + 1
    /\ LET a == AcquireAlone(limiters[LimId], Cfg, now, acquireTimeoutMs) IN
         /\ limiters' = [limiters EXCEPT ![LimId] = a.lim]
         /\ now' = a.at
         /\ ret' = [op |-> "acquire", id |-> LimId, url |-> << >>, acquired |-> a.acquired,
                    calledAt |-> now, backoff |-> limiters[LimId].currentBackoff,
                    consumedAt |-> a.consumedAt]
    /\ UNCHANGED reports
    /\ SeqFrame

\* limiter.reportRateLimitError()
SeqReportRateLimitError ==
    /\ reports < MaxSeqReports
    /\ reports' = reports + 1
    /\ limiters' = [limiters EXCEPT ![LimId] = LimReportRateLimitError(@, Cfg)]
    /\ ret' = [op |-> "reportRateLimitError", id |-> LimId, url |-> << >>]
    /\ UNCHANGED << now, ticks >>
    /\ SeqFrame

\* limiter.reportSuccess()
SeqReportSuccess ==
    /\ reports < MaxSeqReports
    /\ reports' = reports + 1
    /\ limiters' = [limiters EXCEPT ![LimId] = LimReportSuccess(@)]
    /\ ret' = [op |-> "reportSuccess", id |-> LimId, url |-> << >>]
    /\ UNCHANGED << now, ticks >>
    /\ SeqFrame

SeqLimNext ==
    \/ \E t \in SeqTimeouts : SeqAcquire(t)
    \/ SeqReportRateLimitError
    \/ SeqReportSuccess

SeqLimSpec == SeqInit /\ [][SeqLimNext]_vars

(***************************************************************************)
(* Rate limiter manager: two providers, each operation of the manager on   *)
(* either of them.  The limiter of P1 may be held from the start by an     *)
(* acquire asleep in its backoff, with another call queued behind it.      *)
(***************************************************************************)
MaxMgrAcquires == 3   \* acquire() calls per behaviour
MaxMgrOps == 3        \* reports, resets and setConfig calls per behaviour

MgrIds == {"P1", "P2"}
MgrConfigs == {QUICKNODE_RATE_LIMIT, [DEFAULT_RATE_LIMIT EXCEPT !.burstSize = 1]}
MgrTimeouts == {1000}

\* a limiter whose acquire() sleeps in `await sleep(this.currentBackoff)`
\* while a second acquire() waits in requestQueue
HeldLimiter ==
    [created |-> TRUE, tokens |-> 0, lastRefill |-> 0, currentBackoff |-> 2000,
     consecutiveErrors |-> 1, processing |-> TRUE, requestQueue |-> << 1 >>]

\* TokenBucketRateLimiter.reset
LimReset(l, cfg) ==
    [l EXCEPT !.tokens = cfg.burstSize, !.lastRefill = now, !.currentBackoff = 0,
              !.consecutiveErrors = 0]

\* TokenBucketRateLimiter.updateConfig
LimUpdateConfig(l, cfg) == [l EXCEPT !.tokens = Min(@, cfg.burstSize)]

MgrFrame == UNCHANGED << tests, mgrVars, healthVars, selVars, probes, acqVars >>

\* createRateLimiterManager()
MgrInit ==
    /\ now = 0
    /\ ticks = 0
    /\ tests = 0
    /\ reports = 0
    /\ optAdapter = "node"
    /\ adapter = "node"
    /\ initialized = FALSE
    /\ network = None
    /\ isTesting = FALSE
    /\ initPending = << >>
    /\ epoch = 0
    /\ healthCheckInterval = Null
    /\ results = [p \in Providers |-> NoResult]
    /\ highestSeqno = [n \in Networks |-> 0]
    /\ selectedProviderId = None
    /\ autoSelect = TRUE
    /\ customEndpoint = NoEndpoint
    /\ bestProviderByNetwork = [n \in Networks |-> None]
    /\ probes = {}
    /\ configs = [id \in LimiterIds |-> NoConfig]
    /\ \E l \in {NoLimiter, HeldLimiter} :
         limiters = [id \in LimiterIds |-> IF id = "P1" THEN l ELSE NoLimiter]
    /\ calls = << >>
    /\ microtasks = << >>
    /\ timers = << >>
    /\ pending429 = [k |-> 0, at |-> 0]
    /\ ret = NoRet

\* `await manager.acquire(id, t)` on a limiter that is idle, from the call to
\* the return
MgrAcquire(id, acquireTimeoutMs) ==
    /\ ticks < MaxMgrAcquires
    /\ ~limiters[id].processing
    /\ ticks' = ticks + 1
    /\ LET a == AcquireAlone(GetLimiter(limiters, id), EffectiveConfig(id), now,
                             acquireTimeoutMs) IN
         /\ limiters' = [limiters EXCEPT ![id] = a.lim]
         /\ now' = a.at
         /\ ret' = [op |-> "acquire", id |-> id, url |-> << >>, acquired |-> a.acquired]
    /\ UNCHANGED << reports, configs >>
    /\ MgrFrame

\* a synchronous operation of the manager on provider id, leaving the
\* limiters as lims
MgrOp(op, id, lims) ==
    /\ reports < MaxMgrOps
    /\ reports' = reports + 1
    /\ limiters' = lims
    /\ ret' = [op |-> op, id |-> id, url |-> << >>]
    /\ UNCHANGED << now, ticks >>
    /\ MgrFrame

MgrReportSuccessCall(id) ==
    MgrOp("reportSuccess", id, MgrReportSuccess(limiters, id)) /\ UNCHANGED configs

MgrReportRateLimitErrorCall(id) ==
    MgrOp("reportRateLimitError", id, MgrReportRateLimitError(limiters, id)) /\ UNCHANGED configs

MgrReportErrorCall(id) ==
    MgrOp("reportError", id, MgrReportError(limiters, id)) /\ UNCHANGED configs

\* RateLimiterManager.reset
MgrReset(id) ==
    /\ MgrOp("reset", id,
             IF limiters[id].created
             THEN [limiters EXCEPT ![id] = LimReset(@, EffectiveConfig(id))]
             ELSE limiters)
    /\ UNCHANGED configs

\* RateLimiterManager.setConfig
MgrSetConfig(id, cfg) ==
    /\ MgrOp("setConfig", id,
             IF limiters[id].created
             THEN [limiters EXCEPT ![id] = LimUpdateConfig(@, cfg)]
             ELSE limiters)
    /\ configs' = [configs EXCEPT ![id] = cfg]

\* RateLimiterManager.getState: the limiter's getState refills the bucket
MgrGetState(id) ==
    /\ MgrOp("getState", id,
             IF limiters[id].created
             THEN [limiters EXCEPT ![id] = RefillAt(@, EffectiveConfig(id), now)]
             ELSE limiters)
    /\ UNCHANGED configs

\* the operations of the manager on provider id
MgrOpOn(id) ==
    \/ \E t \in MgrTimeouts : MgrAcquire(id, t)
    \/ MgrReportSuccessCall(id)
    \/ MgrReportRateLimitErrorCall(id)
    \/ MgrReportErrorCall(id)
    \/ MgrReset(id)
    \/ \E cfg \in MgrConfigs : MgrSetConfig(id, cfg)
    \/ MgrGetState(id)

MgrNext == \E id \in MgrIds : MgrOpOn(id)

MgrSpec == MgrInit /\ [][MgrNext]_vars

(***************************************************************************)
(* Properties of the manager, the health checker and the selector.         *)
(***************************************************************************)
NetworkProviders == SeqToSet(GetProvidersForNetwork(network))

AutoMode == initialized /\ autoSelect /\ customEndpoint = NoEndpoint

\* the HealthResult of p says the last test failed and the cooldown runs
FailedInCooldown(p) ==
    /\ HasResult(p)
    /\ results[p].success = FALSE
    /\ results[p].lastTested # Null
    /\ now - results[p].lastTested <= cooldownMs

\* the selector itself would pick p
Selectable(p) == ScoreProvider(results, p) > 0

\* C1: in auto-select mode with no custom endpoint, once reportError has been
\* called while provider P was the best provider, the next getBestProvider /
\* getEndpoint does not return P as long as another provider of the network
\* is selectable, for every error class and every prior record of P.
C1_ReportErrorFailsOver ==
    ( /\ AutoMode
      /\ ret.op = "reportError"
      /\ ret.id \in Providers
      /\ \E other \in NetworkProviders \ {ret.id} : Selectable(other) )
    => GetBestProvider(network).ret # ret.id

\* C2: in auto-select mode with no custom endpoint, getBestProvider never
\* returns a provider whose HealthResult has success = false and lastTested
\* inside the 30 s cooldown window, whichever path produced it.
C2_NeverFailedInCooldown ==
    AutoMode =>
        /\ LET r == GetBestProvider(network).ret
           IN r \in Providers => ~FailedInCooldown(r)
        /\ (ret.op \in {"getBestProvider", "getEndpoint"} /\ ret.id \in Providers)
              => ~FailedInCooldown(ret.id)

\* C2 happens: after two rounds of tests getBestProvider has returned P2
\* while P1 is failed and cooling down
C2_Witness ==
    /\ AutoMode
    /\ ret.op = "getBestProvider"
    /\ ret.id = "P2"
    /\ FailedInCooldown("P1")
    /\ tests = 2

\* C3: after markOffline(P, N) the HealthResult of (P, N) has status offline
\* and success = false, after markDegraded(P, N) status degraded and
\* success = false, whatever the prior record (none included); the prior
\* seqno and latencyMs are preserved.
C3_MarkSetsStatusAndFailure ==
    [][ \A p \in Providers :
          /\ MarkOfflineCall(p) =>
                /\ results'[p].status = "offline"
                /\ results'[p].success = FALSE
                /\ results'[p].seqno = results[p].seqno
                /\ results'[p].latencyMs = results[p].latencyMs
          /\ MarkDegradedCall(p) =>
                /\ results'[p].status = "degraded"
                /\ results'[p].success = FALSE
                /\ results'[p].seqno = results[p].seqno
                /\ results'[p].latencyMs = results[p].latencyMs ]_vars

\* C8: at most one health probe of a provider is in flight at any time.
C8_OneProbeInFlight ==
    \A q1 \in probes, q2 \in probes : q1.provider = q2.provider => q1 = q2

\* the only test made so far is a sweep, it is over, and in it P1 reported
\* seqno 1000 and P2 seqno 980
SweepDone1000And980 ==
    /\ initialized
    /\ tests = 1
    /\ reports = 0
    /\ probes = {}
    /\ ~isTesting
    /\ results["P1"].success /\ results["P1"].seqno = 1000
    /\ results["P2"].success /\ results["P2"].seqno = 980

\* C9: after a sweep in which P1 reports seqno 1000 and P2 seqno 980, with
\* maxBlocksBehind = 10, P2 is recorded stale with blocksBehind = 20 and
\* getBestProvider returns P1, in whichever order the two probes complete.
C9_StaleWhateverTheOrder ==
    SweepDone1000And980 =>
        /\ results["P2"].status = "stale"
        /\ results["P2"].blocksBehind = 20
        /\ GetBestProvider(network).ret = "P1"

\* C10: when every provider of the network is failed and cooling down (auto
\* mode, no custom endpoint) getBestProvider returns null and getEndpoint
\* returns the hard-coded public fallback URL of the current network.
C10_AllFailedGivesFallback ==
    ( /\ AutoMode
      /\ \A p \in NetworkProviders : FailedInCooldown(p) )
    => /\ GetBestProvider(network).ret = None
       /\ ret.op = "getBestProvider" => ret.id = None
       /\ ret.op = "getEndpoint" =>
             /\ ret.id = None
             /\ ret.url = IF network = "mainnet"
                          THEN << "https://toncenter.com", "api", "v2", "jsonRPC" >>
                          ELSE << "https://testnet.toncenter.com", "api", "v2", "jsonRPC" >>

\* C10 happens: getEndpoint has answered with the testnet fallback while both
\* testnet providers are failed and cooling down
C10_Witness ==
    /\ AutoMode
    /\ network = "testnet"
    /\ \A p \in NetworkProviders : FailedInCooldown(p)
    /\ ret.op = "getEndpoint"
    /\ ret.id = None
    /\ ret.url = << "https://testnet.toncenter.com", "api", "v2", "jsonRPC" >>

(***************************************************************************)
(* Properties of the rate limiter.                                         *)
(***************************************************************************)
CallIds == 1..Len(calls)

ReturnedTrue(i) == calls[i].pc = "done" /\ calls[i].result = "true"

\* call i has given up or is past its timeout
TimedOut(i) ==
    \/ calls[i].settled = "false"
    \/ calls[i].result = "false"
    \/ now - calls[i].startTime > calls[i].timeoutMs

\* C4: in every interleaving of concurrent acquire calls at most one call is
\* inside the critical section of the limiter (between processing = true
\* and its release).
C4_OneInCriticalSection ==
    Cardinality({i \in CallIds : calls[i].pc \in InCriticalSection}) <= 1

\* call i has passed the consume step of acquire (tokens--)
Consumed(i) == calls[i].pc = "delay" \/ ReturnedTrue(i)

\* C5: acquire calls are admitted to the critical section in the order in
\* which they were called: no call consumes a token while an earlier call is
\* still waiting for its turn and has not timed out.
C5_AdmittedInCallOrder ==
    \A i \in CallIds, j \in CallIds :
        (i < j /\ Consumed(j)) => (Consumed(i) \/ TimedOut(i))

\* C6: an acquire invoked after K >= 1 reports of a 429 does not return true
\* before min(minDelayMs * backoffMultiplier^K, maxBackoffMs) ms have passed
\* since the last of them, whatever acquires were in progress when the
\* reports came.
C6_BackoffServed ==
    \A i \in CallIds : ReturnedTrue(i) => calls[i].doneAt >= calls[i].notBefore

\* C7: under a fixed configuration two acquire calls that return true
\* complete at least minDelayMs apart; so with rps = 1, burstSize = 1,
\* minDelayMs = 1000 the last of three successful acquires started at t = 0
\* or later completes at t >= 2000.
C7_CompletionsSpaced ==
    /\ \A i \in CallIds, j \in CallIds :
          (i # j /\ ReturnedTrue(i) /\ ReturnedTrue(j) /\ calls[i].doneAt <= calls[j].doneAt)
             => calls[j].doneAt - calls[i].doneAt >= Cfg.minDelayMs
    /\ ( /\ Cfg.rps = 1 /\ Cfg.burstSize = 1 /\ Cfg.minDelayMs = 1000
         /\ Len(calls) >= 3
         /\ \A i \in 1..3 : ReturnedTrue(i) )
       => \E i \in 1..3 : calls[i].doneAt >= 2000

(***************************************************************************)
(* Properties of the overrides.                                            *)
(***************************************************************************)
ResolveOps == {"getEndpoint", "getEndpointWithRateLimit"}

\* C11: while a custom endpoint is set (customEndpoint holds the trimmed
\* argument of setCustomEndpoint), every getEndpoint and
\* getEndpointWithRateLimit returns exactly that string.
C11_CustomEndpointReturnedAsIs ==
    (customEndpoint # NoEndpoint /\ ret.op \in ResolveOps) => ret.url = customEndpoint

\* C12: while a custom endpoint is set, getEndpointWithRateLimit,
\* reportSuccess and reportError leave every rate limiter and every health
\* result as they were.
C12_CustomBypassesLimiterAndHealth ==
    [][ ( /\ customEndpoint # NoEndpoint
          /\ \/ \E t \in OverrideTimeouts : GetEndpointWithRateLimit(t)
             \/ ReportSuccess
             \/ \E err \in OverrideErrors : ReportError(err) )
        => UNCHANGED << limiters, results >> ]_vars

\* acquire returned true on the limiter of id during this step: it took a
\* token and stamped lastRefill with the time of its return
TokenAcquiredOn(id) ==
    /\ limiters'[id].created
    /\ limiters'[id].lastRefill = now'
    /\ limiters'[id] # limiters[id]

\* C30: getEndpointWithRateLimit returns the endpoint of a registry provider
\* only if a token was acquired on that provider's limiter during the call:
\* when the acquire on the best provider times out, the next-best provider is
\* tried with a token acquire of its own, and failing that the hard-coded
\* fallback endpoint is returned.  (Stated for calls made while no custom
\* endpoint is set.)
C30_EndpointOnlyWithToken ==
    [][ ( /\ customEndpoint = NoEndpoint
          /\ \E t \in OverrideTimeouts : GetEndpointWithRateLimit(t)
          /\ ret'.id \in Providers )
        => TokenAcquiredOn(ret'.id) ]_vars

(***************************************************************************)
(* Properties of the browser filter.                                        *)
(***************************************************************************)
SelectorOps == {"selector.getBestProvider", "selector.getNextProvider"}

\* C13: a selector created with adapter 'browser', in auto mode, returns from
\* no selection step (getBestProvider with its cache, scoring and two
\* fallback loops, getNextProvider, getAvailableProviders) a provider whose
\* configuration sets browserCompatible = false.
C13_BrowserSelectorFilters ==
    (adapter = "browser" /\ autoSelect /\ customEndpoint = NoEndpoint) =>
       /\ ret.op \in SelectorOps => (ret.id = None \/ ProviderBrowserCompatible(ret.id))
       /\ ret.op = "selector.getAvailableProviders" =>
             \A p \in SeqToSet(ret.ids) : ProviderBrowserCompatible(p)

\* the operations of the manager that return a provider or its endpoint
ManagerResolveOps == {"getBestProvider", "getEndpoint", "getEndpointWithRateLimit"}

\* C14: a manager constructed with adapter 'browser' returns from
\* getActiveProvider, getEndpoint and getEndpointWithRateLimit no provider
\* whose configuration sets browserCompatible = false.
C14_BrowserManagerFilters ==
    (optAdapter = "browser" /\ ret.op \in ManagerResolveOps /\ ret.id \in Providers)
       => ProviderBrowserCompatible(ret.id)

(***************************************************************************)
(* Properties of the health probes.                                        *)
(***************************************************************************)
\* the last probe of p failed; under ProbeSpec every failure of a probe is
\* one of PermanentErrors
LastProbeFailed(p) == results[p].success = FALSE /\ results[p].lastTested # Null

\* C18: in auto mode a provider whose last probe failed with a permanent
\* error (404, 401, 403) is not returned by the selection, cooldown expired
\* or not, as long as no later probe of it has succeeded.
C18_PermanentFailureNeverRetried ==
    (AutoMode /\ ret.op \in ManagerResolveOps /\ ret.id \in Providers)
       => ~LastProbeFailed(ret.id)

\* C19: a probe the provider has answered (with a response or an HTTP error)
\* had acquired a token from that provider's rate limiter before, so the
\* limiter exists by then.
C19_ProbeAcquiresToken ==
    [][ \A q \in probes :
          ( \/ \E info \in Responses : ProbeResponds(q, info)
            \/ \E err \in PermanentErrors : ProbeFail(q, err) )
          => limiters[q.provider].created ]_vars

\* C20: a probe answered without a seqno, or with a seqno that is not a
\* positive integer, is recorded as a failure (success = false, offline) and
\* leaves the highest seqno of the network as it was.
C20_InvalidSeqnoIsFailure ==
    [][ \A q \in probes, info \in InvalidResponses :
          (ProbeResponds(q, info) /\ q.epoch = epoch)
          => /\ results'[q.provider].success = FALSE
             /\ results'[q.provider].status = "offline"
             /\ highestSeqno' = highestSeqno ]_vars

(***************************************************************************)
(* Properties of init().                                                   *)
(***************************************************************************)
\* the manager is initialised for network n
InitializedFor(n) == initialized /\ network = n

\* C15: an init(N) that completes on a manager already initialised for N,
\* every init in progress being an init(N), replaces no component (the
\* component set stays the same) and loses no probe result, limiter state
\* or override.
C15_InitIdempotent ==
    [][ \A i \in 1..Len(initPending) :
          ( /\ InitLoaded(i)
            /\ InitializedFor(initPending[i].network)
            /\ \A j \in 1..Len(initPending) : initPending[j].network = network )
          => UNCHANGED << epoch, healthVars, selVars, limVars >> ]_vars

\* C16: when an init() is rejected on a configuration error, no init having
\* completed since it was called, the manager is left not initialised (so
\* that ensureInitialized makes every getEndpoint and getEndpointWithRateLimit
\* reject), on a fresh manager and on one initialised for another network.
C16_FailedInitLeavesUninitialized ==
    [][ \A i \in 1..Len(initPending) :
          (InitFailed(i) /\ initPending[i].epoch = epoch) => ~initialized' ]_vars

(***************************************************************************)
(* One limiter with CHAINSTACK_RATE_LIMIT and a full bucket; one caller    *)
(* that awaits each acquire() and calls again at once, or after a pause.   *)
(***************************************************************************)
MaxBurstAcquires == 31   \* acquire() calls per behaviour
MaxBurstPauses == 2      \* pauses of the caller per behaviour

CHAINSTACK_RATE_LIMIT == [rps |-> 25, burstSize |-> 30, minDelayMs |-> 40,
                          backoffMultiplier |-> 2, maxBackoffMs |-> 10000]

BurstTimeouts == {10, 60000}
BurstPauses == {40, 1000}

\* new TokenBucketRateLimiter(CHAINSTACK_RATE_LIMIT) at time 0
BurstInit ==
    /\ now = 0
    /\ ticks = 0
    /\ tests = 0
    /\ reports = 0
    /\ optAdapter = "node"
    /\ adapter = "node"
    /\ initialized = FALSE
    /\ network = None
    /\ isTesting = FALSE
    /\ initPending = << >>
    /\ epoch = 0
    /\ healthCheckInterval = Null
    /\ results = [p \in Providers |-> NoResult]
    /\ highestSeqno = [n \in Networks |-> 0]
    /\ selectedProviderId = None
    /\ autoSelect = TRUE
    /\ customEndpoint = NoEndpoint
    /\ bestProviderByNetwork = [n \in Networks |-> None]
    /\ probes = {}
    /\ configs = [id \in LimiterIds |-> IF id = LimId THEN CHAINSTACK_RATE_LIMIT ELSE NoConfig]
    /\ limiters = [id \in LimiterIds |->
                     IF id = LimId
                     THEN [created |-> TRUE, tokens |-> CHAINSTACK_RATE_LIMIT.burstSize,
                           lastRefill |-> 0, currentBackoff |-> 0, consecutiveErrors |-> 0,
                           processing |-> FALSE, requestQueue |-> << >>]
                     ELSE NoLimiter]
    /\ calls = << >>
    /\ microtasks = << >>
    /\ timers = << >>
    /\ pending429 = [k |-> 0, at |-> 0]
    /\ ret = NoRet

\* `await limiter.acquire(t)`, from the call to the return
BurstAcquire(acquireTimeoutMs) ==
    /\ ticks < MaxBurstAcquires
    /\ ticks' = ticks + 1
    /\ LET a == AcquireAlone(limiters[LimId], Cfg, now, acquireTimeoutMs) IN
         /\ limiters' = [limiters EXCEPT ![LimId] = a.lim]
         /\ now' = a.at
         /\ ret' = [op |-> "acquire", id |-> LimId, url |-> << >>, acquired |-> a.acquired,
                    calledAt |-> now]
    /\ UNCHANGED reports
    /\ SeqFrame

\* the caller does something else for d ms before its next acquire
BurstPause(d) ==
    /\ reports < MaxBurstPauses
    /\ reports' = reports + 1
    /\ now' = now + d
    /\ ret' = NoRet
    /\ UNCHANGED << ticks, limiters >>
    /\ SeqFrame

BurstNext ==
    \/ \E t \in BurstTimeouts : BurstAcquire(t)
    \/ \E d \in BurstPauses : BurstPause(d)

BurstSpec == BurstInit /\ [][BurstNext]_vars

\* C26: with rps = 25 and burstSize = 30, starting from a full bucket, 30
\* back-to-back acquires all return true in under 50 ms in total, and the
\* 31st waits about 40 ms (40 to 50 ms).
C26_BurstThenOnePerInterval ==
    [][ (\E t \in BurstTimeouts : BurstAcquire(t)) /\ reports = 0
        => /\ ret'.acquired
           /\ ticks' <= 30 => now' < 50
           /\ ticks' = 31 => (now' - now >= 40 /\ now' - now <= 50) ]_vars

(***************************************************************************)
(* init configuring the limiter of one provider, of any declared rps and   *)
(* any type.                                                               *)
(***************************************************************************)
MaxRps == 25

ORBS_RATE_LIMIT == [rps |-> 10, burstSize |-> 20, minDelayMs |-> 100,
                    backoffMultiplier |-> 2, maxBackoffMs |-> 10000]

\* getRateLimitForType
TypeConfigs ==
    { DEFAULT_RATE_LIMIT, CHAINSTACK_RATE_LIMIT, QUICKNODE_RATE_LIMIT, ORBS_RATE_LIMIT }

\* the provider of the registry is held in ret: its rps and the
\* configuration of its type
RateInit ==
    \E rps \in 1..MaxRps, base \in TypeConfigs :
        /\ now = 0
        /\ ticks = 0
        /\ tests = 0
        /\ reports = 0
        /\ optAdapter = "node"
        /\ adapter = "node"
        /\ initialized = FALSE
        /\ network = None
        /\ isTesting = FALSE
        /\ initPending = << >>
        /\ epoch = 0
        /\ healthCheckInterval = Null
        /\ results = [p \in Providers |-> NoResult]
        /\ highestSeqno = [n \in Networks |-> 0]
        /\ selectedProviderId = None
        /\ autoSelect = TRUE
        /\ customEndpoint = NoEndpoint
        /\ bestProviderByNetwork = [n \in Networks |-> None]
        /\ probes = {}
        /\ configs = [id \in LimiterIds |-> NoConfig]
        /\ limiters = [id \in LimiterIds |-> NoLimiter]
        /\ calls = << >>
        /\ microtasks = << >>
        /\ timers = << >>
        /\ pending429 = [k |-> 0, at |-> 0]
        /\ ret = [op |-> "provider", id |-> LimId, url |-> << >>, rps |-> rps, base |-> base]

\* init: the body of the loop over registry.getAllProviders()
ConfigureLimiter ==
    /\ ret.op = "provider"
    /\ configs' = [configs EXCEPT ![ret.id] = InitRateConfigFor(ret.base, ret.rps)]
    /\ ret' = [ret EXCEPT !.op = "setConfig"]
    /\ UNCHANGED << now, ticks, tests, reports, mgrVars, healthVars, selVars, probes, limiters,
                    acqVars >>

RateNext == ConfigureLimiter

RateSpec == RateInit /\ [][RateNext]_vars

Configured == ret.op = "setConfig"

ExpectedBurst(rps) ==
    IF rps <= 3 THEN 1 ELSE IF rps <= 5 THEN 2 ELSE Max(3, (3 * rps + 1) \div 2)

MaxSegments == 4       \* '/'-separated parts after the first
MaxNormalizations == 2 \* applications per behaviour

Segments == { "api", "v2", "v3", "jsonRPC", "" }
FirstParts == { "https://my.proxy", "not a url" }

RECURSIVE PathsUpTo(_)
PathsUpTo(k) ==
    IF k = 0 THEN { << >> }
    ELSE LET shorter == PathsUpTo(k - 1)
         IN shorter \cup { Append(path, seg) : path \in shorter, seg \in Segments }

\* the strings given to the function: with one or several trailing slashes,
\* with more than one /api/v3, with surrounding white space, not URLs
EndpointStrings ==
    LET bare == { << first >> \o path : first \in FirstParts, path \in PathsUpTo(MaxSegments) }
    IN bare \cup { << " " >> \o x \o << " " >> : x \in bare }

\* the string given is held in ret.url
NormInit ==
    \E x \in EndpointStrings :
        /\ now = 0
        /\ ticks = 0
        /\ tests = 0
        /\ reports = 0
        /\ optAdapter = "node"
        /\ adapter = "node"
        /\ initialized = FALSE
        /\ network = None
        /\ isTesting = FALSE
        /\ initPending = << >>
        /\ epoch = 0
        /\ healthCheckInterval = Null
        /\ results = [p \in Providers |-> NoResult]
        /\ highestSeqno = [n \in Networks |-> 0]
        /\ selectedProviderId = None
        /\ autoSelect = TRUE
        /\ customEndpoint = NoEndpoint
        /\ bestProviderByNetwork = [n \in Networks |-> None]
        /\ probes = {}
        /\ configs = [id \in LimiterIds |-> NoConfig]
        /\ limiters = [id \in LimiterIds |-> NoLimiter]
        /\ calls = << >>
        /\ microtasks = << >>
        /\ timers = << >>
        /\ pending429 = [k |-> 0, at |-> 0]
        /\ ret = [op |-> "string", id |-> None, url |-> x]

NormFrame == UNCHANGED << now, tests, reports, mgrVars, healthVars, selVars, probes, limVars, acqVars >>

\* normalizeV2Endpoint(x), x the string given or the result of the last call
NormalizeCall ==
    /\ ticks < MaxNormalizations
    /\ ticks' = ticks + 1
    /\ ret' = [op |-> "normalizeV2Endpoint", id |-> None, url |-> NormalizeV2Endpoint(ret.url)]
    /\ NormFrame

NormNext == NormalizeCall

NormSpec == NormInit /\ [][NormNext]_vars

\* C27: normalizeV2Endpoint is idempotent: applied to its own result, for any
\* string it was given, it returns that result unchanged.
C27_NormalizeIdempotent ==
    [][ (ret.op = "normalizeV2Endpoint" /\ NormalizeCall) => ret'.url = ret.url ]_vars

(***************************************************************************)
(* Properties of the backoff.                                              *)
(***************************************************************************)
\* the last operation was an acquire that returned true
Acquired == ret.op = "acquire" /\ ret.acquired

\* C17: with minDelayMs = 100 and backoffMultiplier = 2, a 429 reported after
\* an acquire that found no backoff sets currentBackoff to 200; an acquire
\* that finds a backoff takes its token no sooner than that backoff after
\* the call; and a 429 reported after an acquire that served a backoff b sets
\* currentBackoff to twice b (400 after 200, 800 after 400), maxBackoffMs at
\* most.
C17_BackoffDoublesAcrossAcquires ==
    [][ /\ (SeqReportRateLimitError /\ Acquired /\ ret.backoff = 0)
           => limiters'[LimId].currentBackoff = 200
        /\ (\E t \in SeqTimeouts : SeqAcquire(t)) /\ ret'.acquired
           => ret'.consumedAt >= ret'.calledAt + ret'.backoff
        /\ (SeqReportRateLimitError /\ Acquired /\ ret.backoff > 0)
           => limiters'[LimId].currentBackoff = Min(2 * ret.backoff, Cfg.maxBackoffMs) ]_vars

(***************************************************************************)
(* Properties of the highest seqno.                                        *)
(***************************************************************************)
\* C21: for each network the highest seqno held by a health checker never
\* decreases, whatever probe completes (with a response or an error, in any
\* order) and whatever mark is made.
C21_HighestSeqnoMonotonic ==
    [][ epoch' = epoch => \A n \in Networks : highestSeqno'[n] >= highestSeqno[n] ]_vars

\* C21 happens: a probe answered with seqno 980 has completed after the
\* network's highest seqno had reached 1000, and a mark has been made
C21_Witness ==
    /\ highestSeqno["testnet"] = 1000
    /\ results["P2"].seqno = 980
    /\ results["P2"].blocksBehind = 20
    /\ reports = 1

(***************************************************************************)
(* Properties of the rate limiter manager.                                 *)
(***************************************************************************)
\* the limiter of provider id has a token to give and no backoff to serve
OwnBucketReady(id) ==
    LET l == RefillAt(GetLimiter(limiters, id), EffectiveConfig(id), now)
    IN l.tokens > 0 /\ l.currentBackoff = 0

\* C22: an operation of the manager on provider a (acquire, the three
\* reports, reset, setConfig) leaves the limiter and the configuration of
\* every other provider b as they were; and an acquire on b whose own bucket
\* has a token and no backoff returns true within b's minDelayMs, whatever
\* backoff, lock or queue a's limiter holds.
C22_LimitersIndependent ==
    [][ \A a \in MgrIds, b \in MgrIds :
          /\ (a # b /\ MgrOpOn(a))
             => (limiters'[b] = limiters[b] /\ configs'[b] = configs[b])
          /\ ((\E t \in MgrTimeouts : MgrAcquire(b, t)) /\ OwnBucketReady(b))
             => (ret'.acquired /\ now' - now <= EffectiveConfig(b).minDelayMs) ]_vars

\* C22 happens: an acquire on P2 has returned true while the limiter of P1 is
\* locked by an acquire in backoff, after a 429 reported on P1
C22_Witness ==
    /\ ret.op = "acquire"
    /\ ret.id = "P2"
    /\ ret.acquired
    /\ limiters["P1"].processing
    /\ limiters["P1"].currentBackoff > 2000
    /\ limiters["P1"].requestQueue # << >>

(***************************************************************************)
(* Claims about the dispatch of reportError, checked under Spec.           *)
(***************************************************************************)
\* the class the error's message puts it in, by the markers it contains
MessageClass(err) ==
    IF err \cap {"429", "rate limit"} # {} THEN "rateLimit"
    ELSE IF err \cap {"503", "502", "404", "timeout", "abort", "service unavailable",
                      "bad gateway", "not found"} # {}
    THEN "offline"
    ELSE "other"

\* C28: reportError(err) applies one limiter operation and one health mark to
\* the active provider: reportRateLimitError and markDegraded for a message
\* with '429' or 'rate limit'; reportError and markOffline for 503, 502, 404,
\* 'timeout', 'abort', 'service unavailable', 'bad gateway', 'not found';
\* reportError and markDegraded for any other.
C28_ReportErrorDispatch ==
    [][ \A err \in ReportedErrors :
          (ReportError(err) /\ ret'.id # None) =>
             LET p == ret'.id
                 l == GetLimiter(limiters, p)
                 expected == IF MessageClass(err) = "rateLimit"
                             THEN LimReportRateLimitError(l, EffectiveConfig(p))
                             ELSE LimReportError(l, EffectiveConfig(p))
             IN /\ limiters'[p].consecutiveErrors = expected.consecutiveErrors
                /\ limiters'[p].currentBackoff = expected.currentBackoff
                /\ \A x \in LimiterIds \ {p} :
                      limiters'[x].consecutiveErrors = limiters[x].consecutiveErrors
                      /\ limiters'[x].currentBackoff = limiters[x].currentBackoff
                /\ results'[p].status =
                      (IF MessageClass(err) = "offline" THEN "offline" ELSE "degraded") ]_vars

(***************************************************************************)
(* Claims about the state listeners, checked under NotifySpec.             *)
(***************************************************************************)
ListenersNotified == "notified" \in DOMAIN ret

\* init() has completed: without a first sweep, or with a sweep that was
\* refused because one is running, at the end of InitLoaded; otherwise when
\* the last probe of its sweep settles
InitCompletes ==
    \/ \E i \in 1..Len(initPending) :
          InitLoaded(i) /\ ~(initPending[i].test /\ ~isTesting)
    \/ \E q \in probes : q.init /\ q \notin probes' /\ ~isTesting'

\* a full sweep has completed
SweepCompletes == \E q \in probes : q.owner = 0 /\ q \notin probes' /\ isTesting /\ ~isTesting'

\* the probe of a single testProvider(id) call has completed
SingleTestCompletes == \E q \in probes : q.owner # 0 /\ q \notin probes'

\* reportError has marked the active provider
ReportErrorMarks == ret'.op = "reportError" /\ ret'.id # None

SetterCalled ==
    \/ \E id \in {"P2", None} : SetSelectedProvider(id)
    \/ \E enabled \in BOOLEAN : SetAutoSelect(enabled)
    \/ \E x \in NotifyEndpoints : SetCustomEndpoint(x)

\* C23: every subscribed listener is invoked with a state snapshot after the
\* completion of init, after the completion of any probe (a full sweep or a
\* single testProvider), after every explicit mark made by reportError and
\* after every setSelectedProvider / setAutoSelect / setCustomEndpoint.
C23_ListenersNotifiedOnEveryChange ==
    [][ (InitCompletes \/ SweepCompletes \/ SingleTestCompletes
           \/ ReportErrorMarks \/ SetterCalled)
        => ListenersNotified' ]_vars

(***************************************************************************)
(* Claims about the outcome of acquire(), checked under LimSpec.           *)
(***************************************************************************)
\* call i resolves false in this step
ResolvesFalse(i) ==
    /\ i \in DOMAIN calls'
    /\ calls'[i].result = "false"
    /\ i \in DOMAIN calls => calls[i].result = "pending"

\* the lock after a call that held it has returned: released, and the first
\* waiter, when there is one, taken off the queue and woken
ReleasedOrHandedOver ==
    LET q == limiters[LimId].requestQueue IN
    /\ ~limiters'[LimId].processing
    /\ q # << >> =>
          /\ limiters'[LimId].requestQueue = Tail(q)
          /\ \E k \in 1..Len(microtasks') : microtasks'[k] = [kind |-> "resume", call |-> Head(q)]

\* C24: acquire resolves to a boolean; it resolves false only after its
\* timeoutMs deadline has passed; a call that resolves false has consumed no
\* token, and if it held the processing flag it leaves the flag released or
\* handed to the next waiter.
C24_FalseOnlyAfterDeadline ==
    [][ /\ \A i \in DOMAIN calls' : calls'[i].result \in {"pending", "true", "false"}
        /\ \A i \in DOMAIN calls' :
              ResolvesFalse(i) =>
                /\ now' - calls'[i].startTime > calls'[i].timeoutMs
                /\ limiters'[LimId].tokens >= limiters[LimId].tokens
                /\ IF calls'[i].admitted
                   THEN ReleasedOrHandedOver
                   ELSE limiters'[LimId].processing = limiters[LimId].processing ]_vars

\* one call has timed out in the token wait loop, another in the queue
C24_Witness ==
    \E i, j \in DOMAIN calls :
        /\ calls[i].result = "false" /\ calls[i].admitted
        /\ calls[i].doneAt - calls[i].startTime > calls[i].timeoutMs
        /\ calls[j].result = "false" /\ ~calls[j].admitted

(***************************************************************************)
(* Claims about the manual selection, checked under NotifySpec.            *)
(***************************************************************************)
ManuallySelected(id) ==
    /\ initialized
    /\ selectedProviderId = id
    /\ ~autoSelect
    /\ customEndpoint = NoEndpoint
    /\ id \in SeqToSet(GetProvidersForNetwork(network))

SelectionChanged ==
    \/ SetterCalled
    \/ \E i \in 1..Len(initPending) : InitLoaded(i)

\* C25: after setSelectedProvider(id), id a provider of the network,
\* getSelectedProviderId() is id and auto-select is off, and every
\* getBestProvider(network) returns that provider whatever its health, its
\* cooldown and the cached best provider, until the selection is changed or
\* a custom endpoint is set.
C25_ManualSelectionWins ==
    [][ /\ SetSelectedProvider("P2") => selectedProviderId' = "P2" /\ ~autoSelect'
        /\ (ManuallySelected("P2") /\ ~SelectionChanged) => ManuallySelected("P2")'
        /\ (ManuallySelected("P2") /\ GetActiveProvider) => ret'.id = "P2" ]_vars

\* P2 is the manual selection and is returned although its last probe
\* failed, it is in cooldown and the cached best provider is P1
C25_Witness ==
    /\ ManuallySelected("P2")
    /\ ret.op = "getBestProvider" /\ ret.id = "P2"
    /\ results["P2"].success = FALSE
    /\ ~CooldownExpired(results, "P2")
    /\ bestProviderByNetwork[network] = "P1"

(***************************************************************************)
(* Claims about the health records, checked under HealthSpec.              *)
(***************************************************************************)
\* C31: every HealthResult satisfies: status available implies success,
\* latencyMs <= degradedLatencyMs and blocksBehind <= maxBlocksBehind; status
\* stale implies success and blocksBehind > maxBlocksBehind; status untested
\* or testing implies success = false and lastTested = null.
C31_StatusMatchesFields ==
    \A p \in Providers :
        LET r == results[p] IN
        /\ r.status = "available" =>
              /\ r.success = TRUE
              /\ r.latencyMs # Null /\ r.latencyMs <= degradedLatencyMs
              /\ r.blocksBehind <= maxBlocksBehind
        /\ r.status = "stale" => (r.success = TRUE /\ r.blocksBehind > maxBlocksBehind)
        /\ r.status \in {"untested", "testing"} => (r.success = FALSE /\ r.lastTested = Null)

\* one provider is available; the other answered after 5 s with a seqno 20
\* blocks behind and is stale
C31_Witness ==
    /\ results["P1"].status = "available" /\ results["P1"].seqno = 1000
    /\ results["P2"].status = "stale" /\ results["P2"].blocksBehind = 20
    /\ results["P2"].latencyMs = 5000

(***************************************************************************)
(* Destruction: destroy() called on a manager that is idle, that is in     *)
(* init() or that runs a sweep, and init() called again afterwards.        *)
(***************************************************************************)
MaxLives == 3    \* component sets made or dropped, and init() calls waiting

Destroyed == [op |-> "destroy", id |-> None, url |-> << >>]

\* ProviderManager.destroy.  The health checker of before lives on in the
\* probes it has in flight, out of the manager's reach: the component set
\* changes identity.
Destroy ==
    /\ healthCheckInterval' = Null
    /\ epoch' = epoch + 1
    /\ results' = [p \in Providers |-> NoResult]
    /\ highestSeqno' = [n \in Networks |-> 0]
    /\ configs' = [id \in LimiterIds |-> NoConfig]
    /\ limiters' = [id \in LimiterIds |-> NoLimiter]
    /\ adapter' = "node"
    /\ selectedProviderId' = None
    /\ autoSelect' = TRUE
    /\ customEndpoint' = NoEndpoint
    /\ bestProviderByNetwork' = [n \in Networks |-> None]
    /\ initialized' = FALSE
    /\ network' = None
    /\ ret' = Destroyed
    /\ UNCHANGED << now, ticks, tests, reports, optAdapter, isTesting, initPending, probes,
                    acqVars >>

DestroyNext ==
    \/ \E test \in BOOLEAN : InitCallWithin("testnet", test, MaxLives)
    \/ \E i \in 1..Len(initPending) : InitLoaded(i)
    \/ epoch + Len(initPending) < MaxLives /\ Destroy
    \/ TestAllProviders
    \/ HealthCheckTick
    \/ \E q \in probes : ProbeSucceed(q, 1000)
    \/ \E q \in probes : ProbeFail(q, {"503"})
    \/ \E d \in TickSteps : Tick(d)

DestroySpec == Init /\ [][DestroyNext]_vars

\* init() is called in this step
InitCalled == Len(initPending') > Len(initPending)

\* C34: once destroy() has returned, the manager stays uninitialized, holds
\* no components and runs no health-check timer until init() is called
\* again, also when an init() or a sweep was in flight at the time of the
\* destroy(); the result of that init() or sweep is discarded and no error
\* is raised.
C34_DestroyedUntilInit ==
    [][ (ret = Destroyed /\ ~InitCalled) =>
            /\ ~initialized'
            /\ ~HasComponents'
            /\ healthCheckInterval' = Null
            /\ ret' # SweepFailed ]_vars

(***************************************************************************)
(* Claims about the cached best provider, checked under Spec              *)
(***************************************************************************)
\* no probe of the current health checker is in flight
NoProbeInFlight == ~isTesting /\ \A q \in probes : q.epoch # epoch

\* the last probe of P1 succeeded and P1 scores higher than P2, which has
\* been probed successfully as well
P1RecoveredAndBetter ==
    /\ initialized /\ network = "testnet" /\ AutoMode
    /\ NoProbeInFlight
    /\ results["P1"].success = TRUE /\ results["P1"].status = "available"
    /\ results["P2"].success = TRUE /\ results["P2"].status \in minStatus
    /\ ScoreProvider(results, "P1") > ScoreProvider(results, "P2")

\* C33: after P1 was demoted and P2 became the cached best provider, once
\* P1 has been probed successfully again, by a sweep or by a single test,
\* and scores higher than P2, the next getBestProvider returns P1.
C33_RecoveredProviderReturned ==
    P1RecoveredAndBetter => GetBestProvider(network).ret = "P1"

(***************************************************************************)
(* Requests and their reports: the application resolves endpoints, sends   *)
(* its requests and reports their outcomes, several requests at a time.    *)
(***************************************************************************)
MaxRequestReports == 2    \* reportError calls per behaviour
RequestErrors == { {"429"}, {"503"}, {} }

ReportNext ==
    \/ InitCall("testnet", TRUE)
    \/ \E i \in 1..Len(initPending) : InitLoaded(i)
    \/ \E q \in probes : ProbeSucceed(q, 1000)
    \/ \E q \in probes : ProbeFail(q, {"503"})
    \/ GetEndpoint
    \/ \E t \in OverrideTimeouts : GetEndpointWithRateLimit(t)
    \/ ReportSuccess
    \/ \E err \in RequestErrors : ReportErrorWithin(err, MaxRequestReports)

ReportSpec == Init /\ [][ReportNext]_vars

(***************************************************************************)
(* Rate limiter: the backoff of one limiter under 429 reports, other error *)
(* reports, success reports and acquire() calls, for configurations of     *)
(* short and long delays, multipliers and backoff caps.                    *)
(***************************************************************************)
BackoffDelays == {100, 1000}
BackoffMultipliers == {2, 3}
BackoffCaps == {1500, 30000}

\* new TokenBucketRateLimiter({ minDelayMs, backoffMultiplier, maxBackoffMs })
BackoffConfigs ==
    { [DEFAULT_RATE_LIMIT EXCEPT !.minDelayMs = d, !.backoffMultiplier = k, !.maxBackoffMs = cap] :
        d \in BackoffDelays, k \in BackoffMultipliers, cap \in BackoffCaps }

BackoffInit ==
    /\ now = 0
    /\ ticks = 0
    /\ tests = 0
    /\ reports = 0
    /\ optAdapter = "node"
    /\ adapter = "node"
    /\ initialized = FALSE
    /\ network = None
    /\ isTesting = FALSE
    /\ initPending = << >>
    /\ epoch = 0
    /\ healthCheckInterval = Null
    /\ results = [p \in Providers |-> NoResult]
    /\ highestSeqno = [n \in Networks |-> 0]
    /\ selectedProviderId = None
    /\ autoSelect = TRUE
    /\ customEndpoint = NoEndpoint
    /\ bestProviderByNetwork = [n \in Networks |-> None]
    /\ probes = {}
    /\ \E cfg \in BackoffConfigs :
         /\ configs = [id \in LimiterIds |-> IF id = LimId THEN cfg ELSE NoConfig]
         /\ limiters = [id \in LimiterIds |->
                          IF id = LimId
                          THEN [created |-> TRUE, tokens |-> cfg.burstSize, lastRefill |-> 0,
                                currentBackoff |-> 0, consecutiveErrors |-> 0,
                                processing |-> FALSE, requestQueue |-> << >>]
                          ELSE NoLimiter]
    /\ calls = << >>
    /\ microtasks = << >>
    /\ timers = << >>
    /\ pending429 = [k |-> 0, at |-> 0]
    /\ ret = NoRet

\* limiter.reportError()
SeqReportError ==
    /\ reports < MaxSeqReports
    /\ reports' = reports + 1
    /\ limiters' = [limiters EXCEPT ![LimId] = LimReportError(@, Cfg)]
    /\ ret' = [op |-> "reportError", id |-> LimId, url |-> << >>]
    /\ UNCHANGED << now, ticks >>
    /\ SeqFrame

BackoffNext ==
    \/ \E t \in SeqTimeouts : SeqAcquire(t)
    \/ SeqReportRateLimitError
    \/ SeqReportError
    \/ SeqReportSuccess

BackoffSpec == BackoffInit /\ [][BackoffNext]_vars

\* C38: in every reachable limiter state currentBackoff <= maxBackoffMs, for
\* every configuration of minDelayMs, backoffMultiplier and maxBackoffMs and
\* every sequence of reportRateLimitError and reportError.
C38_BackoffCapped == limiters[LimId].currentBackoff <= Cfg.maxBackoffMs

\* C39: a reportError for an error that is no 429 never lowers a pending
\* backoff: currentBackoff after the call is at least what it was before.
C39_ReportErrorKeepsBackoff ==
    [][ (ret'.op = "reportError" /\ reports' = reports + 1) =>
            limiters'[LimId].currentBackoff >= limiters[LimId].currentBackoff ]_vars

Called(i) == Len(calls) >= i
Resolved(i) == Len(calls) >= i /\ calls[i].pc = "done"

\* the processing flag is released in this step while callers wait in the
\* queue
ReleasedWithWaiters ==
    /\ limiters[LimId].processing
    /\ ~limiters'[LimId].processing
    /\ limiters[LimId].requestQueue # << >>

\* the first waiter of the queue, and nobody else, is signalled in this step
OneWaiterSignalled ==
    LET q == limiters[LimId].requestQueue IN
    /\ limiters'[LimId].requestQueue = Tail(q)
    /\ calls'[Head(q)].settled = "true"
    /\ \A j \in 2..Len(q) : calls'[q[j]].settled = "no"

\* C36: every acquire(timeoutMs) call eventually resolves, a queued waiter
\* by the signal of a releasing holder or with false after its deadline, so
\* no waiter stays in the queue forever; and whenever the processing flag is
\* released while the queue is not empty, exactly one waiter is signalled.
C36_EveryAcquireResolves ==
    /\ \A i \in 1..MaxQueueCalls : Called(i) ~> Resolved(i)
    /\ [][ReleasedWithWaiters => OneWaiterSignalled]_vars

\* a waiter signalled by a releasing holder has got its token, another one
\* has been resolved false by its deadline check, and the queue is empty
C36_Witness ==
    /\ \E i \in 1..Len(calls) : calls[i].settled = "true" /\ calls[i].result = "true"
    /\ \E i \in 1..Len(calls) : calls[i].settled = "false" /\ calls[i].result = "false"
    /\ \A i \in 1..Len(calls) : calls[i].pc = "done"
    /\ limiters[LimId].requestQueue = << >>

\* the health record of provider p and the penalties of its limiter
Penalties(res, lims, p) ==
    << res[p], lims[p].created, lims[p].currentBackoff, lims[p].consecutiveErrors >>

\* reportError is called in this step
ReportErrorCalled == reports' = reports + 1 /\ ret'.op = "reportError"

\* C35: reportError changes limiter and health state only of the provider
\* the reporting caller's request was resolved to.  Two requests resolved
\* to P1 fail and are reported one after the other: the second report,
\* which follows the first with nothing in between, penalises P1 and leaves
\* the record and the limiter penalties of P2 as they are.
C35_ReportsHitResolvedProvider ==
    [][ (ret.op = "reportError" /\ ret.id = "P1" /\ network = "testnet" /\ ReportErrorCalled) =>
            Penalties(results', limiters', "P2") = Penalties(results, limiters, "P2") ]_vars

\* C40: in every reachable selector state autoSelect is false exactly when a
\* provider is selected: setAutoSelect(true) clears the selection,
\* setSelectedProvider(id) with an id disables auto-select and
\* setSelectedProvider(null) re-enables it.
C40_AutoSelectIffNoSelection == (autoSelect = FALSE) <=> (selectedProviderId # None)

\* a probe of provider p, of the current health checker, has started in
\* this step
ProbeStarts(p) ==
    /\ epoch' = epoch
    /\ \E q \in probes' \ probes : q.provider = p /\ q.epoch = epoch

\* C32: while a probe of provider P is in flight, a reader of P's
\* HealthResult observes the complete result of the previous probe or the
\* complete result of the new one: the start of a probe leaves the record
\* of the previous probe in place.
C32_ReadersSeeCompleteResults ==
    [][ \A p \in Providers :
          (ProbeStarts(p) /\ results[p].lastTested # Null) => results'[p] = results[p] ]_vars

====
